---- MODULE Spec2Model ----
(***************************************************************************)
(* Turn-processing protocol of the todo chat backend.                     *)
(*                                                                         *)
(* The durable store (conversations, messages, tasks) is shared by         *)
(* independent request workers; every SQL statement/commit of              *)
(* send_chat_message and run_agent is one atomic step, so that workers     *)
(* interleave exactly where the database lets them.                        *)
(*                                                                         *)
(* Strings are modelled as tuples of character codes (positive integers),  *)
(* so that slicing (message[:100]) is computed, not assumed.               *)
(***************************************************************************)
EXTENDS Integers, Sequences, FiniteSets, TLC

(* ---------------------------- bounds ----------------------------------- *)
\* chat requests one worker serves in one behaviour
MaxRequests == 1
\* clock ticks that are not caused by an engine round trip
MaxTicks == 1
\* tool executions the engine performs in one turn
MaxToolCalls == 1
\* task rows ever created
MaxTasks == 2
\* messages already stored in the pre-existing conversation
ShortHistoryLen == 1
\* the same, where the history window is exercised (around the limit of 20)
LongHistoryLen == 21

(* ------------------------ program constants ---------------------------- *)
MAX_HISTORY_MESSAGES == 20
TITLE_MAX_LENGTH == 100
TASK_TITLE_MAX_LENGTH == 200
MESSAGE_MIN_LENGTH == 1
MESSAGE_MAX_LENGTH == 1000

Workers == {"w1", "w2"}
Users == {"alice", "bob"}

\* Optional[str] conversation_id / row id that is absent
None == 0
\* title = None (a column value that is no string: every character is >= 1)
NoTitle == <<0>>
\* the empty dict {}
EmptyDict == [k \in {} |-> 0]

Min(a, b) == IF a < b THEN a ELSE b

\* s[:n]
Slice(s, n) == SubSeq(s, 1, Min(Len(s), n))

\* list(reversed(s))
Reversed(s) == [i \in 1..Len(s) |-> s[Len(s) + 1 - i]]

\* request.message values: a short one and one longer than the title limit
ShortMessage == <<1>>
LongMessage == [i \in 1..(TITLE_MAX_LENGTH + 1) |-> 3]
RequestMessages == {ShortMessage, LongMessage}
\* messages at and beyond the limits of the schema
EmptyMessage == <<>>
LongestMessage == [i \in 1..MESSAGE_MAX_LENGTH |-> 3]
TooLongMessage == [i \in 1..(MESSAGE_MAX_LENGTH + 1) |-> 3]
BoundaryMessages ==
    {EmptyMessage, ShortMessage, LongMessage, LongestMessage, TooLongMessage}

\* result.final_output of the engine
ReplyText == <<9>>

VARIABLES
    conversations,      \* table conversations: id -> row
    messages,           \* table messages, in insertion order
    tasks,              \* table tasks: set of rows
    next_id,            \* ids handed out so far (uuid4 is fresh every time)
    clock,              \* datetime.utcnow()
    ticks,              \* number of Tick steps taken
    num_requests,       \* chat requests each worker has accepted so far
    pc,                 \* position of each worker in send_chat_message
    request,            \* ChatRequest + current_user of each worker
    conversation,       \* id of the Conversation object the worker holds
    history_messages,   \* list of Message rows loaded at lines 115-123
    user_message,       \* id of the user Message row of this turn
    run,                \* locals of run_agent
    response,           \* what the worker answers
    written,            \* ids of the message rows this turn has committed
    loaded,             \* the Conversation row as loaded/created at lines 90-112
    sync_response       \* answer of the last get/delete conversation call

vars == <<conversations, messages, tasks, next_id, clock, ticks, num_requests,
          pc, request, conversation, history_messages, user_message, run,
          response, written, loaded, sync_response>>

store == <<conversations, messages, tasks, next_id>>
locals == <<request, conversation, history_messages, user_message, run,
            response, written, loaded>>

(* ----------------------------- rows ------------------------------------ *)
\* Conversation(user_id, title, created_at, updated_at)
ConversationRow(u, t, c, up) ==
    [user_id |-> u, title |-> t, created_at |-> c, updated_at |-> up]

\* Message(conversation_id, role, content, created_at)
MessageRow(i, c, r, txt, at) ==
    [id |-> i, conversation_id |-> c, role |-> r, content |-> txt,
     created_at |-> at]

\* Task(user_id, title, is_completed)
TaskRow(i, u, t, done) ==
    [id |-> i, user_id |-> u, title |-> t, is_completed |-> done]

\* Message.conversation_id references conversations.id
ForeignKeyOk(convs, cid) == cid \in DOMAIN convs

\* deleting a conversation removes its messages
CascadeDelete(msgs, cid) ==
    SelectSeq(msgs, LAMBDA m : m.conversation_id # cid)

\* the select that loads a conversation whoever owns it
SelectAnyOwner(convs, cid, u) == IF cid \in DOMAIN convs THEN cid ELSE None

\* select(Conversation).where(id == cid, user_id == u).first()
SelectOwned(convs, cid, u) ==
    IF cid \in DOMAIN convs /\ convs[cid].user_id = u THEN cid ELSE None

\* conversation_id = "": a string the schema accepts (no min_length)
EmptyConversationId == -2

\* if request.conversation_id: None and "" are both falsy
Truthy(cid) == cid \notin {None, EmptyConversationId}

(* ---------------------- the history window ----------------------------- *)
\* ORDER BY created_at DESC does not say how rows with equal created_at are
\* ordered; the database may return them either way round.
TieOrders == {"insertion", "reverse"}

ConvIdx(msgs, cid) == {i \in 1..Len(msgs) : msgs[i].conversation_id = cid}

\* where(Message.conversation_id == cid): the rows, in insertion order
RECURSIVE WhereConversation(_, _)
WhereConversation(msgs, cid) ==
    IF msgs = <<>> THEN <<>>
    ELSE IF Head(msgs).conversation_id = cid
         THEN <<Head(msgs)>> \o WhereConversation(Tail(msgs), cid)
         ELSE WhereConversation(Tail(msgs), cid)

\* row comes before row other in ORDER BY created_at DESC, where row was
\* inserted after other
DescBefore(row, other, tie) ==
    \/ row.created_at > other.created_at
    \/ row.created_at = other.created_at /\ tie = "reverse"

\* sorted is in the order of ORDER BY created_at DESC; row, inserted after
\* all of its rows, takes its place
RECURSIVE InsertDesc(_, _, _)
InsertDesc(sorted, row, tie) ==
    IF sorted = <<>> \/ DescBefore(row, Head(sorted), tie)
    THEN <<row>> \o sorted
    ELSE <<Head(sorted)>> \o InsertDesc(Tail(sorted), row, tie)

\* order_by(Message.created_at.desc()) of rows given in insertion order
RECURSIVE OrderByDesc(_, _)
OrderByDesc(rows, tie) ==
    IF rows = <<>> THEN <<>>
    ELSE InsertDesc(OrderByDesc(SubSeq(rows, 1, Len(rows) - 1), tie),
                    rows[Len(rows)], tie)

\* select(Message).where(conversation_id == cid)
\*     .order_by(created_at.desc()).limit(n)
SelectRecent(msgs, cid, n, tie) ==
    SubSeq(OrderByDesc(WhereConversation(msgs, cid), tie), 1,
           Min(n, Cardinality(ConvIdx(msgs, cid))))

\* the window without the reversal of line 123
NewestFirstWindow(msgs, cid, tie) ==
    SelectRecent(msgs, cid, MAX_HISTORY_MESSAGES, tie)

\* lines 115-123: the window, oldest first
HistoryWindow(msgs, cid, tie) ==
    Reversed(SelectRecent(msgs, cid, MAX_HISTORY_MESSAGES, tie))

\* lines 129-132
HistoryDicts(hm) ==
    [i \in 1..Len(hm) |-> [role |-> hm[i].role, content |-> hm[i].content]]

(* ----------------------------- Init ------------------------------------ *)
\* A store the program has produced before: alice's conversation 1 after n
\* messages of alternating turns (an odd count ends with the user message of
\* a failed turn), and one pending task of alice.
InitTaskTitle == <<7>>
InitTasks(n) == {TaskRow(n + 2, "alice", InitTaskTitle, FALSE)}
InitRole(i) == IF i % 2 = 1 THEN "user" ELSE "assistant"
InitContent(i) == IF i % 2 = 1 THEN ShortMessage ELSE ReplyText
InitMessages(n) ==
    [i \in 1..n |-> MessageRow(i, 1, InitRole(i), InitContent(i), i)]
InitUpdatedAt(n) == n - (n % 2)

IdleRequest == [user |-> "alice", message |-> <<>>, conversation_id |-> None]
\* an exception: its class and its text
Exception(type, text) == [type |-> type, text |-> text]
NoException == Exception("", "")
IdleRun == [task_count_before |-> 0, task_count_after |-> 0,
            input_messages |-> <<>>, tools_run |-> 0,
            result |-> [final_output |-> <<>>], tool_calls |-> <<>>,
            raised |-> NoException, cause |-> "",
            last_tool |-> [tool |-> "", args |-> EmptyDict,
                           returned |-> EmptyDict]]
NoResponse == [status |-> 0, detail |-> "", response |-> <<>>,
               conversation_id |-> None, tool_calls |-> <<>>]
\* what list/get/delete conversation answers to user u asking for cid
RouteResponse(op, u, cid, code, text, id, msgs, convs) ==
    [op |-> op, user |-> u, requested |-> cid, status |-> code,
     detail |-> text, id |-> id, messages |-> msgs, conversations |-> convs]
NoSyncResponse == RouteResponse("", "", None, 0, "", None, <<>>, <<>>)
NoRow == ConversationRow("", NoTitle, 0, 0)

InitWith(n) ==
    /\ conversations = [c \in {1} |->
          ConversationRow("alice",
                          IF n = 0 THEN NoTitle
                          ELSE Slice(ShortMessage, TITLE_MAX_LENGTH),
                          0, InitUpdatedAt(n))]
    /\ messages = InitMessages(n)
    /\ tasks = InitTasks(n)
    /\ next_id = n + 3
    /\ clock = n + 1
    /\ ticks = 0
    /\ num_requests = [w \in Workers |-> 0]
    /\ pc = [w \in Workers |-> "idle"]
    /\ request = [w \in Workers |-> IdleRequest]
    /\ conversation = [w \in Workers |-> None]
    /\ history_messages = [w \in Workers |-> <<>>]
    /\ user_message = [w \in Workers |-> None]
    /\ run = [w \in Workers |-> IdleRun]
    /\ response = [w \in Workers |-> NoResponse]
    /\ written = [w \in Workers |-> <<>>]
    /\ loaded = [w \in Workers |-> NoRow]
    /\ sync_response = NoSyncResponse

Init == InitWith(ShortHistoryLen)

(* ------------------------- table helpers ------------------------------- *)
\* session.add(row); session.commit() for a new conversation row
InsertConversation(convs, cid, row) ==
    [c \in DOMAIN convs \cup {cid} |-> IF c = cid THEN row ELSE convs[c]]

\* session.delete(conversation); session.commit()
RemoveConversation(convs, cid) ==
    [c \in DOMAIN convs \ {cid} |-> convs[c]]

\* a row that is added to the session but never committed
LostInsert(msgs, row) == msgs

\* an insert that writes over the newest row of the same conversation
OverwriteLast(msgs, row) ==
    IF msgs # <<>> /\ msgs[Len(msgs)].conversation_id = row.conversation_id
    THEN [msgs EXCEPT ![Len(msgs)] = row]
    ELSE Append(msgs, row)

\* an insert that skips a row whose conversation already holds a row with
\* the same role and content
InsertDeduplicated(msgs, row) ==
    IF \E i \in 1..Len(msgs) :
          /\ msgs[i].conversation_id = row.conversation_id
          /\ msgs[i].role = row.role
          /\ msgs[i].content = row.content
    THEN msgs
    ELSE Append(msgs, row)

\* an insert that puts the row before the rows stored so far
InsertFirst(msgs, row) == <<row>> \o msgs

\* session.add(message); session.commit()
InsertMessage(msgs, row) == Append(msgs, row)

\* ids of the rows that new holds after the rows of old
AppendedIds(old, new) ==
    [i \in 1..(Len(new) - Len(old)) |-> new[Len(old) + i].id]

\* lines 138-143
UserMessageRow(i, cid, text, at) == MessageRow(i, cid, "user", text, at)

\* the assistant row written with the role of the row above it
AssistantRowAsUser(i, cid, text, at) == MessageRow(i, cid, "user", text, at)

\* lines 183-188
AssistantMessageRow(i, cid, text, at) == MessageRow(i, cid, "assistant", text, at)

\* len(db.exec(select(Task).where(Task.user_id == user_id)).all())
CountTasks(tsks, u) == Cardinality({t \in tsks : t.user_id = u})

\* raise HTTPException(status_code, detail) / the uncaught-exception handler
ErrorResponse(code, text) ==
    [status |-> code, detail |-> text, response |-> <<>>,
     conversation_id |-> None, tool_calls |-> <<>>]

NotFound == ErrorResponse(404, "Conversation not found")
GatewayTimeout == ErrorResponse(504, "AI service timeout. Please try again.")
EngineFailure ==
    ErrorResponse(500, "I'm having trouble processing your request. Please try again.")
InternalError == ErrorResponse(500, "Internal server error")

\* a request ends with an error response
Fail(w, resp) ==
    /\ pc' = [pc EXCEPT ![w] = "done"]
    /\ response' = [response EXCEPT ![w] = resp]

UnknownConversationId == -1

(* ------------------- send_chat_message, lines 87-151 ------------------- *)
\* a schema that accepts the empty message
NotTooLong(m) == Len(m) <= MESSAGE_MAX_LENGTH

\* schemas.py line 75: message: str = Field(min_length=1, max_length=1000)
ValidMessage(m) == Len(m) >= MESSAGE_MIN_LENGTH /\ Len(m) <= MESSAGE_MAX_LENGTH

\* the body does not pass ChatRequest: the framework answers 422 and the
\* handler is not called
ValidationError == ErrorResponse(422, "Unprocessable Entity")

\* lines 52-112: the body is validated, then ownership is verified or the
\* conversation is created
ChatBegin(w, u, m, cid) ==
    /\ pc[w] = "idle"
    /\ num_requests[w] < MaxRequests
    /\ num_requests' = [num_requests EXCEPT ![w] = @ + 1]
    /\ request' = [request EXCEPT
                     ![w] = [user |-> u, message |-> m, conversation_id |-> cid]]
    /\ IF ~ValidMessage(m)
       THEN /\ Fail(w, ValidationError)
            /\ UNCHANGED <<conversations, next_id, conversation, loaded>>
       ELSE IF Truthy(cid)
       THEN /\ conversation' =
                  [conversation EXCEPT ![w] = SelectOwned(conversations, cid, u)]
            /\ IF SelectOwned(conversations, cid, u) = None
               THEN /\ Fail(w, NotFound)
                    /\ UNCHANGED loaded
               ELSE /\ pc' = [pc EXCEPT ![w] = "load_history"]
                    /\ loaded' = [loaded EXCEPT ![w] = conversations[cid]]
                    /\ UNCHANGED response
            /\ UNCHANGED <<conversations, next_id>>
       ELSE /\ conversations' =
                  InsertConversation(conversations, next_id,
                                     ConversationRow(u, NoTitle, clock, clock))
            /\ next_id' = next_id + 1
            /\ conversation' = [conversation EXCEPT ![w] = next_id]
            /\ loaded' = [loaded EXCEPT
                  ![w] = ConversationRow(u, NoTitle, clock, clock)]
            /\ pc' = [pc EXCEPT ![w] = "load_history"]
            /\ UNCHANGED response
    /\ UNCHANGED <<messages, tasks, clock, ticks, history_messages,
                   user_message, run, written, sync_response>>

\* lines 114-132: load the window
LoadHistory(w, tie) ==
    /\ pc[w] = "load_history"
    /\ history_messages' =
          [history_messages EXCEPT
              ![w] = HistoryWindow(messages, conversation[w], tie)]
    /\ pc' = [pc EXCEPT ![w] = "store_user"]
    /\ UNCHANGED <<store, clock, ticks, num_requests, request, conversation,
                   user_message, run, response, written, loaded, sync_response>>

\* lines 138-145: the user message is committed
StoreUserMessage(w) ==
    /\ pc[w] = "store_user"
    /\ IF ForeignKeyOk(conversations, conversation[w])
       THEN /\ messages' =
                  InsertMessage(messages,
                      UserMessageRow(next_id, conversation[w],
                                     request[w].message, clock))
            /\ next_id' = next_id + 1
            /\ user_message' = [user_message EXCEPT ![w] = next_id]
            /\ written' = [written EXCEPT
                  ![w] = @ \o AppendedIds(messages, messages')]
            /\ pc' = [pc EXCEPT ![w] = "title_check"]
            /\ UNCHANGED response
       ELSE /\ Fail(w, InternalError)
            /\ UNCHANGED <<messages, next_id, user_message, written>>
    /\ UNCHANGED <<conversations, tasks, clock, ticks, num_requests, request,
                   conversation, history_messages, run, loaded, sync_response>>

\* line 148: conversation.title is reloaded after the commit of line 145
TitleCheck(w) ==
    /\ pc[w] = "title_check"
    /\ IF conversation[w] \notin DOMAIN conversations
       THEN Fail(w, InternalError)
       ELSE /\ pc' = [pc EXCEPT ![w] =
                        IF conversations[conversation[w]].title = NoTitle
                        THEN "title_set" ELSE "count_before"]
            /\ UNCHANGED response
    /\ UNCHANGED <<store, clock, ticks, num_requests, request, conversation,
                   history_messages, user_message, run, written, loaded, sync_response>>

\* the title taken without the slice
WholeMessage(m) == m

\* request.message[:100]
TitleFrom(m) == Slice(m, TITLE_MAX_LENGTH)

\* lines 149-151: UPDATE conversations SET title = ...; commit
TitleSet(w) ==
    /\ pc[w] = "title_set"
    /\ IF conversation[w] \notin DOMAIN conversations
       THEN /\ Fail(w, InternalError)
            /\ UNCHANGED conversations
       ELSE /\ conversations' =
                  [conversations EXCEPT
                      ![conversation[w]].title = TitleFrom(request[w].message)]
            /\ pc' = [pc EXCEPT ![w] = "count_before"]
            /\ UNCHANGED response
    /\ UNCHANGED <<messages, tasks, next_id, clock, ticks, num_requests,
                   request, conversation, history_messages, user_message, run,
                   written, loaded, sync_response>>

(* ------------------------------ run_agent ------------------------------ *)
\* hasattr(x, name)
HasAttr(x, name) == name \in DOMAIN x

\* an engine-side record of one tool invocation
Invocation(n, a) == [name |-> n, arguments |-> a]
\* entries of result.new_items
FunctionCall(n, a) == [type |-> "function_call", name |-> n, arguments |-> a]
FunctionOutput(o) == [type |-> "function_call_output", output |-> o]
MessageItem == [type |-> "message_output"]
LegacyItem(tcs) == [tool_calls |-> tcs]

AddArgs == [title |-> <<7>>]
IdArgs == [task_id |-> 1]
AddOutput == [task_id |-> 1, status |-> "created"]
\* a tool output that is not a dict (item.output is then wrapped by str())
TextOutput == [py_str |-> <<8>>]
IsDict(o) == ~HasAttr(o, "py_str")

\* the shapes in which Runner.run may report what it did
ResultPlain == [final_output |-> ReplyText]
ResultDirectOne ==
    [final_output |-> ReplyText, tool_calls |-> <<Invocation("add_task", AddArgs)>>]
ResultDirectTwo ==
    [final_output |-> ReplyText,
     tool_calls |-> <<Invocation("list_tasks", EmptyDict),
                      Invocation("add_task", AddArgs)>>]
ResultTraceOne ==
    [final_output |-> ReplyText, tool_calls |-> <<>>,
     new_items |-> <<FunctionCall("add_task", AddArgs), FunctionOutput(AddOutput),
                     MessageItem>>]
ResultTraceTwo ==
    [final_output |-> ReplyText,
     new_items |-> <<FunctionCall("complete_task", IdArgs),
                     FunctionCall("add_task", AddArgs),
                     FunctionOutput(TextOutput), FunctionOutput(AddOutput),
                     MessageItem>>]
ResultTraceLegacy ==
    [final_output |-> ReplyText,
     new_items |-> <<LegacyItem(<<Invocation("delete_task", IdArgs),
                                  Invocation("list_tasks", EmptyDict)>>),
                     MessageItem>>]
ResultTraceNoCalls ==
    [final_output |-> ReplyText, new_items |-> <<MessageItem>>]
ResultBoth ==
    [final_output |-> ReplyText,
     tool_calls |-> <<Invocation("delete_task", IdArgs)>>,
     new_items |-> <<FunctionCall("add_task", AddArgs), FunctionOutput(AddOutput)>>]
EngineResults ==
    {ResultPlain, ResultDirectOne, ResultDirectTwo, ResultTraceOne,
     ResultTraceTwo, ResultTraceLegacy, ResultTraceNoCalls, ResultBoth}

\* lines 180-184, 193-197, 201-205: one normalized record
ToolCallDict(tc) == [tool |-> tc.name, args |-> tc.arguments, result |-> EmptyDict]

\* lines 179-184
FromDirectList(tcs) == [i \in 1..Len(tcs) |-> ToolCallDict(tcs[i])]

\* line 210
OutputDict(o) == IF IsDict(o) THEN o ELSE [output |-> o.py_str]

\* lines 187-210: one pass over result.new_items
RECURSIVE ScanItems(_, _)
ScanItems(items, acc) ==
    IF items = <<>> THEN acc
    ELSE LET item == Head(items)
         IN  ScanItems(Tail(items),
                IF HasAttr(item, "type") /\ item.type = "function_call"
                THEN Append(acc, ToolCallDict(item))
                ELSE IF HasAttr(item, "tool_calls") /\ Len(item.tool_calls) > 0
                THEN acc \o FromDirectList(item.tool_calls)
                ELSE IF HasAttr(item, "type") /\ item.type = "function_call_output"
                THEN IF Len(acc) > 0 /\ HasAttr(item, "output")
                     THEN [acc EXCEPT ![Len(acc)].result = OutputDict(item.output)]
                     ELSE acc
                ELSE acc)

\* extraction that reads the direct list and the trace, one after the other
ExtractBoth(result) ==
    (IF HasAttr(result, "tool_calls") THEN FromDirectList(result.tool_calls)
     ELSE <<>>)
    \o (IF HasAttr(result, "new_items") THEN ScanItems(result.new_items, <<>>)
        ELSE <<>>)

\* lines 168-216
ExtractToolCalls(result) ==
    IF HasAttr(result, "tool_calls") /\ Len(result.tool_calls) > 0
    THEN FromDirectList(result.tool_calls)
    ELSE IF HasAttr(result, "new_items")
    THEN ScanItems(result.new_items, <<>>)
    ELSE <<>>

ChangeMarker(before, after) ==
    [tool |-> "task_change_detected",
     args |-> [change_type |-> "unknown", before_count |-> before,
               after_count |-> after],
     result |-> [message |-> "Task state changed"]]

\* reconciliation that trusts the engine's report alone
NoMarker(tool_calls, before, after) == tool_calls

\* reconciliation that adds the marker whenever the count moved
MarkerAlways(tool_calls, before, after) ==
    IF before # after
    THEN Append(tool_calls, ChangeMarker(before, after))
    ELSE tool_calls

\* reconciliation that adds the marker only when the count has grown
MarkerOnGrowth(tool_calls, before, after) ==
    IF tool_calls = <<>> /\ before < after
    THEN <<ChangeMarker(before, after)>>
    ELSE tool_calls

\* lines 218-228
Reconcile(tool_calls, before, after) ==
    IF tool_calls = <<>> /\ before # after
    THEN <<ChangeMarker(before, after)>>
    ELSE tool_calls

\* the new entry put in front of the history
NewMessageFirst(history, message) ==
    <<[role |-> "user", content |-> message]>> \o history

\* lines 139-153
BuildInputMessages(history, message) ==
    (IF Len(history) > 0 THEN history ELSE <<>>)
        \o <<[role |-> "user", content |-> message]>>

\* line 125 and lines 139-153, up to the await of line 157
CountBefore(w) ==
    /\ pc[w] = "count_before"
    /\ run' = [run EXCEPT
          ![w].task_count_before = CountTasks(tasks, request[w].user),
          ![w].input_messages =
              BuildInputMessages(HistoryDicts(history_messages[w]),
                                 request[w].message)]
    /\ pc' = [pc EXCEPT ![w] = "running"]
    /\ UNCHANGED <<store, clock, ticks, num_requests, request, conversation,
                   history_messages, user_message, response, written,
                   loaded, sync_response>>

(* ------------------------- tools (tools.py) ---------------------------- *)
TaskTitles == {<<7>>}
\* title argument of update_task: None, or a new title
UpdateTitles == {NoTitle, <<6>>}
\* status argument of list_tasks
ListStatuses == {"all", "pending", "completed"}
UnknownTaskId == -1

\* the select of a tool that loads a task whoever owns it
AnyTask(tsks, task_id, u) == {t \in tsks : t.id = task_id}

\* select(Task).where(Task.id == task_id, Task.user_id == user_id).first()
OwnTask(tsks, task_id, u) == {t \in tsks : t.id = task_id /\ t.user_id = u}

\* an error that does not say which task was asked for
BareError(task_id) == [error |-> "Task not found"]

\* return {"error": "Task not found", "task_id": task_id}
TaskNotFound(task_id) == [error |-> "Task not found", task_id |-> task_id]

\* {"task_id": ..., "status": ..., "title": ...}
TaskDone(t, status) == [task_id |-> t.id, status |-> status, title |-> t.title]

\* what a tool call was and what it returned
ToolReturn(name, args, returned) ==
    [tool |-> name, args |-> args, returned |-> returned]

\* the engine may execute a tool while the handler awaits Runner.run
ToolGuard(w) ==
    /\ pc[w] = "running"
    /\ run[w].tools_run < MaxToolCalls

ToolFrame(w, name, args, returned) ==
    /\ run' = [run EXCEPT ![w].tools_run = @ + 1,
                          ![w].last_tool = ToolReturn(name, args, returned)]
    /\ UNCHANGED <<conversations, messages, clock, ticks, num_requests, pc,
                   request, conversation, history_messages, user_message,
                   response, written, loaded, sync_response>>

\* lines 71-81 of add_task: a new row with a fresh id is committed
AddTaskEffect(tsks, id, u, title) ==
    tsks \cup {TaskRow(id, u, Slice(title, TASK_TITLE_MAX_LENGTH), FALSE)}

\* tools.py lines 55-87
ToolAddTask(w, title) ==
    /\ ToolGuard(w)
    /\ Cardinality(tasks) < MaxTasks
    /\ tasks' = AddTaskEffect(tasks, next_id, request[w].user, title)
    /\ next_id' = next_id + 1
    /\ ToolFrame(w, "add_task", [title |-> title],
                 TaskDone(TaskRow(next_id, request[w].user,
                                  Slice(title, TASK_TITLE_MAX_LENGTH), FALSE),
                          "created"))

\* lines 105-123 of list_tasks: the user's rows that pass the status filter,
\* newest first (ids are handed out in creation order)
RECURSIVE NewestFirst(_)
NewestFirst(rows) ==
    IF rows = {} THEN <<>>
    ELSE LET t == CHOOSE t \in rows : \A o \in rows : o.id <= t.id
         IN  <<[id |-> t.id, title |-> t.title, completed |-> t.is_completed]>>
                 \o NewestFirst(rows \ {t})

ListTasksReturn(tsks, u, status) ==
    NewestFirst({t \in tsks :
                    /\ t.user_id = u
                    /\ status = "pending" => ~t.is_completed
                    /\ status = "completed" => t.is_completed})

\* tools.py lines 90-123
ToolListTasks(w, status) ==
    /\ ToolGuard(w)
    /\ UNCHANGED <<tasks, next_id>>
    /\ ToolFrame(w, "list_tasks", [status |-> status],
                 ListTasksReturn(tasks, request[w].user, status))

\* .first() of the select, when there is a row
FirstOwnTask(tsks, task_id, u) == CHOOSE t \in OwnTask(tsks, task_id, u) : TRUE

\* if not task: return the error object; otherwise the tool's own payload
FoundOrNot(tsks, task_id, u, payload) ==
    IF OwnTask(tsks, task_id, u) = {} THEN TaskNotFound(task_id) ELSE payload

\* tools.py lines 126-154
ToolGetTask(w, task_id) ==
    /\ ToolGuard(w)
    /\ UNCHANGED <<tasks, next_id>>
    /\ ToolFrame(w, "get_task", [task_id |-> task_id],
          FoundOrNot(tasks, task_id, request[w].user,
              [task_id |-> FirstOwnTask(tasks, task_id, request[w].user).id,
               title |-> FirstOwnTask(tasks, task_id, request[w].user).title,
               completed |-> FirstOwnTask(tasks, task_id, request[w].user).is_completed]))

\* lines 186-187: if title is not None: task.title = title[:200]
UpdatedRow(t, title) ==
    IF title = NoTitle THEN t
    ELSE [t EXCEPT !.title = Slice(title, TASK_TITLE_MAX_LENGTH)]

\* lines 178-194 of update_task: the user's row, if any, is rewritten
UpdateTaskEffect(tsks, task_id, u, title) ==
    (tsks \ OwnTask(tsks, task_id, u)) \cup
        {UpdatedRow(t, title) : t \in OwnTask(tsks, task_id, u)}

\* tools.py lines 157-200
ToolUpdateTask(w, task_id, title) ==
    /\ ToolGuard(w)
    /\ tasks' = UpdateTaskEffect(tasks, task_id, request[w].user, title)
    /\ UNCHANGED next_id
    /\ ToolFrame(w, "update_task", [task_id |-> task_id, title |-> title],
          FoundOrNot(tasks, task_id, request[w].user,
              TaskDone(UpdatedRow(FirstOwnTask(tasks, task_id, request[w].user), title),
                       "updated")))

\* a complete_task that flips is_completed
FlipTaskEffect(tsks, task_id, u) ==
    (tsks \ OwnTask(tsks, task_id, u)) \cup
        {[t EXCEPT !.is_completed = ~t.is_completed] :
            t \in OwnTask(tsks, task_id, u)}

\* lines 217-228 of complete_task: task.is_completed = True; commit
CompleteTaskEffect(tsks, task_id, u) ==
    (tsks \ OwnTask(tsks, task_id, u)) \cup
        {[t EXCEPT !.is_completed = TRUE] : t \in OwnTask(tsks, task_id, u)}

\* tools.py lines 203-234
ToolCompleteTask(w, task_id) ==
    /\ ToolGuard(w)
    /\ tasks' = CompleteTaskEffect(tasks, task_id, request[w].user)
    /\ UNCHANGED next_id
    /\ ToolFrame(w, "complete_task", [task_id |-> task_id],
          FoundOrNot(tasks, task_id, request[w].user,
              TaskDone(FirstOwnTask(tasks, task_id, request[w].user),
                       "completed")))

\* lines 251-260 of delete_task: db.delete(task); commit
DeleteTaskEffect(tsks, task_id, u) == tsks \ OwnTask(tsks, task_id, u)

\* tools.py lines 237-266
ToolDeleteTask(w, task_id) ==
    /\ ToolGuard(w)
    /\ tasks' = DeleteTaskEffect(tasks, task_id, request[w].user)
    /\ UNCHANGED next_id
    /\ ToolFrame(w, "delete_task", [task_id |-> task_id],
          FoundOrNot(tasks, task_id, request[w].user,
              TaskDone(FirstOwnTask(tasks, task_id, request[w].user),
                       "deleted")))

(* ------------------ the await of chat.py lines 157-178 ----------------- *)
\* Runner.run returns; the round trip to the model takes time
EngineReturn(w, res) ==
    /\ pc[w] = "running"
    /\ run' = [run EXCEPT ![w].result = res, ![w].last_tool = IdleRun.last_tool]
    /\ clock' = clock + 1
    /\ pc' = [pc EXCEPT ![w] = "count_after"]
    /\ UNCHANGED <<store, ticks, num_requests, request, conversation,
                   history_messages, user_message, response, written,
                   loaded, sync_response>>

\* an except branch that stores an apology as the assistant's reply
ApologyStored(msgs, cid, at) ==
    IF cid \in DOMAIN conversations
    THEN Append(msgs, MessageRow(next_id, cid, "assistant", <<5>>, at))
    ELSE msgs

\* an except branch that touches the conversation
TouchUpdatedAt(convs, cid, at) ==
    IF cid \in DOMAIN convs THEN [convs EXCEPT ![cid].updated_at = at] ELSE convs

\* an except branch that takes back the newest message of the conversation
UserMessageRolledBack(msgs, cid, at) ==
    IF ConvIdx(msgs, cid) = {} THEN msgs
    ELSE LET last == CHOOSE i \in ConvIdx(msgs, cid) :
                         \A j \in ConvIdx(msgs, cid) : j <= i
         IN  SubSeq(msgs, 1, last - 1) \o SubSeq(msgs, last + 1, Len(msgs))

\* what the except branches of lines 167-178 store: nothing
MessagesAfterEngineError(msgs, cid, at) == msgs
ConversationsAfterEngineError(convs, cid, at) == convs

\* an except branch that undoes what the tools did for user u
TasksRolledBack(tsks, u) == {t \in tsks : t.user_id # u}

\* what the except branches do to the tasks of user u: nothing
TasksAfterEngineError(tsks, u) == tsks

\* the texts an exception of the engine may carry
ExceptionTexts == {"upstream said: quota exceeded", "connection reset by peer"}
\* the engine raises asyncio.TimeoutError or another subclass of Exception
EngineExceptions ==
    {Exception(t, x) : t \in {"TimeoutError", "RuntimeError"},
                       x \in ExceptionTexts}
\* asyncio.wait_for raises asyncio.TimeoutError when the deadline expires
DeadlineExpiry == Exception("TimeoutError", "")
\* a query of run_agent fails because the database is unavailable
StorageError == Exception("OperationalError", "could not connect to server")

\* an except branch that hands the exception text to the client
RawExceptResponse(exc) == ErrorResponse(500, exc.text)

\* lines 167-178: the response chosen by the class of the exception
ExceptResponse(exc) ==
    IF exc.type = "TimeoutError" THEN GatewayTimeout ELSE EngineFailure

\* exception exc leaves run_agent while the handler is at position at;
\* cause records where it came from
EngineError(w, at, exc, cause) ==
    /\ pc[w] = at
    /\ messages' = MessagesAfterEngineError(messages, conversation[w], clock)
    /\ conversations' =
          ConversationsAfterEngineError(conversations, conversation[w], clock)
    /\ tasks' = TasksAfterEngineError(tasks, request[w].user)
    /\ written' = [written EXCEPT ![w] = @ \o AppendedIds(messages, messages')]
    /\ run' = [run EXCEPT ![w].raised = exc, ![w].cause = cause,
                          ![w].last_tool = IdleRun.last_tool]
    /\ Fail(w, ExceptResponse(exc))
    /\ UNCHANGED <<next_id, clock, ticks, num_requests, request,
                   conversation, history_messages, user_message,
                   loaded, sync_response>>

\* a handler that calls run_agent again when the deadline has expired
TimeoutRetry(w) ==
    /\ pc[w] = "running"
    /\ pc' = [pc EXCEPT ![w] = "count_before"]
    /\ UNCHANGED <<store, clock, ticks, num_requests, locals, sync_response>>

\* a handler that calls run_agent again when it has raised
RaiseRetry(w, exc) ==
    /\ pc[w] = "running"
    /\ pc' = [pc EXCEPT ![w] = "count_before"]
    /\ run' = [run EXCEPT ![w].raised = exc]
    /\ UNCHANGED <<store, clock, ticks, num_requests, request, conversation,
                   history_messages, user_message, response, written, loaded,
                   sync_response>>

\* the deadline of line 165 expires while Runner.run is awaited
EngineTimeout(w) == EngineError(w, "running", DeadlineExpiry, "deadline")

\* Runner.run raises
EngineRaise(w, exc) == EngineError(w, "running", exc, "engine")

\* agent.py line 125: the count before the invocation fails
CountBeforeFails(w) == EngineError(w, "count_before", StorageError, "counting")

\* agent.py line 165: the count after the invocation fails
CountAfterFails(w) == EngineError(w, "count_after", StorageError, "counting")

\* the worker process dies while it awaits the engine
Crash(w) ==
    /\ pc[w] = "running"
    /\ pc' = [pc EXCEPT ![w] = "crashed"]
    /\ UNCHANGED <<store, clock, ticks, num_requests, locals, sync_response>>

\* agent.py lines 165-235
CountAfter(w) ==
    /\ pc[w] = "count_after"
    /\ run' = [run EXCEPT
          ![w].task_count_after = CountTasks(tasks, request[w].user),
          ![w].tool_calls =
              Reconcile(ExtractToolCalls(run[w].result),
                        run[w].task_count_before,
                        CountTasks(tasks, request[w].user))]
    /\ pc' = [pc EXCEPT ![w] = "store_assistant"]
    /\ UNCHANGED <<store, clock, ticks, num_requests, request, conversation,
                   history_messages, user_message, response, written,
                   loaded, sync_response>>

(* ------------------------ chat.py lines 183-217 ------------------------ *)
\* lines 199-206
ToolCallSchema(tc) == [tool |-> tc.tool, args |-> tc.args, result |-> tc.result]

\* lines 213-217
ChatResponse(text, cid, tcs) ==
    [status |-> 200, detail |-> "", response |-> text, conversation_id |-> cid,
     tool_calls |-> [i \in 1..Len(tcs) |-> ToolCallSchema(tcs[i])]]

\* a turn that leaves updated_at as it was
UpdatedAtKept(convs, cid, at) == convs

\* lines 190-193: conversation.updated_at = datetime.utcnow(); commit
ConversationAfterTurn(convs, cid, at) == [convs EXCEPT ![cid].updated_at = at]

\* lines 183-194: one commit stores the assistant message and updated_at
StoreAssistant(w) ==
    /\ pc[w] = "store_assistant"
    /\ IF conversation[w] \notin DOMAIN conversations
       THEN /\ Fail(w, InternalError)
            /\ UNCHANGED <<conversations, messages, next_id, written>>
       ELSE /\ messages' =
                  InsertMessage(messages,
                      AssistantMessageRow(next_id, conversation[w],
                                          run[w].result.final_output, clock))
            /\ conversations' =
                  ConversationAfterTurn(conversations, conversation[w], clock)
            /\ next_id' = next_id + 1
            /\ written' = [written EXCEPT
                  ![w] = @ \o AppendedIds(messages, messages')]
            /\ pc' = [pc EXCEPT ![w] = "done"]
            /\ response' = [response EXCEPT
                  ![w] = ChatResponse(run[w].result.final_output,
                                      conversation[w], run[w].tool_calls)]
    /\ UNCHANGED <<tasks, clock, ticks, num_requests, request, conversation,
                   history_messages, user_message, run, loaded, sync_response>>

\* the response has been sent (or the crashed worker restarted): nothing of
\* the request stays in the worker
Finish(w) ==
    /\ pc[w] \in {"done", "crashed"}
    /\ pc' = [pc EXCEPT ![w] = "idle"]
    /\ request' = [request EXCEPT ![w] = IdleRequest]
    /\ conversation' = [conversation EXCEPT ![w] = None]
    /\ history_messages' = [history_messages EXCEPT ![w] = <<>>]
    /\ user_message' = [user_message EXCEPT ![w] = None]
    /\ run' = [run EXCEPT ![w] = IdleRun]
    /\ response' = [response EXCEPT ![w] = NoResponse]
    /\ written' = [written EXCEPT ![w] = <<>>]
    /\ loaded' = [loaded EXCEPT ![w] = NoRow]
    /\ UNCHANGED <<store, clock, ticks, num_requests, sync_response>>

(* --------------------- the other conversation routes ------------------- *)
\* row c is listed before row d by ORDER BY updated_at DESC
ListedBefore(convs, c, d, tie) ==
    \/ convs[c].updated_at > convs[d].updated_at
    \/ /\ convs[c].updated_at = convs[d].updated_at
       /\ IF tie = "insertion" THEN c < d ELSE c > d

\* lines 239-246: ConversationSummary(id, title, created_at, updated_at)
ConversationSummary(convs, c) ==
    [id |-> c, title |-> convs[c].title, created_at |-> convs[c].created_at,
     updated_at |-> convs[c].updated_at]

\* the rows ids of convs in the order of ORDER BY updated_at DESC
RECURSIVE OrderConversations(_, _, _)
OrderConversations(convs, ids, tie) ==
    IF ids = {} THEN <<>>
    ELSE LET c == CHOOSE c \in ids :
                     \A d \in ids \ {c} : ListedBefore(convs, c, d, tie)
         IN  <<ConversationSummary(convs, c)>>
                 \o OrderConversations(convs, ids \ {c}, tie)

\* the list with every user's conversations in it
ListEveryone(convs, u, tie) ==
    RouteResponse("list", u, None, 200, "", None, <<>>,
                  OrderConversations(convs, DOMAIN convs, tie))

\* chat.py lines 220-253
ListResponse(convs, u, tie) ==
    RouteResponse("list", u, None, 200, "", None, <<>>,
        OrderConversations(convs,
                           {c \in DOMAIN convs : convs[c].user_id = u}, tie))

ListConversations(u, tie) ==
    /\ sync_response' = ListResponse(conversations, u, tie)
    /\ UNCHANGED <<store, clock, ticks, num_requests, pc, locals>>

\* a conversation of somebody else answered with 403
ForbiddenGetResponse(convs, msgs, u, cid, tie) ==
    IF cid \in DOMAIN convs /\ convs[cid].user_id # u
    THEN RouteResponse("get", u, cid, 403, "Forbidden", None, <<>>, <<>>)
    ELSE IF SelectOwned(convs, cid, u) = None
    THEN RouteResponse("get", u, cid, 404, "Conversation not found", None,
                       <<>>, <<>>)
    ELSE RouteResponse("get", u, cid, 200, "", cid,
                       HistoryWindow(msgs, cid, tie), <<>>)

\* chat.py lines 256-316
GetResponse(convs, msgs, u, cid, tie) ==
    IF SelectOwned(convs, cid, u) = None
    THEN RouteResponse("get", u, cid, 404, "Conversation not found", None,
                       <<>>, <<>>)
    ELSE RouteResponse("get", u, cid, 200, "", cid,
                       HistoryWindow(msgs, cid, tie), <<>>)

GetConversation(u, cid, tie) ==
    /\ sync_response' = GetResponse(conversations, messages, u, cid, tie)
    /\ UNCHANGED <<store, clock, ticks, num_requests, pc, locals>>

\* chat.py lines 319-358
DeleteResponse(convs, u, cid) ==
    IF SelectOwned(convs, cid, u) = None
    THEN RouteResponse("delete", u, cid, 404, "Conversation not found", None,
                       <<>>, <<>>)
    ELSE RouteResponse("delete", u, cid, 204, "", None, <<>>, <<>>)

\* a delete that leaves the rows of the messages table alone
MessagesKept(msgs, cid) == msgs

\* lines 354-356: "messages cascade delete via relationship"
MessagesAfterDelete(msgs, cid) == CascadeDelete(msgs, cid)

DeleteConversation(u, cid) ==
    /\ sync_response' = DeleteResponse(conversations, u, cid)
    /\ IF SelectOwned(conversations, cid, u) = None
       THEN UNCHANGED <<conversations, messages>>
       ELSE /\ conversations' = RemoveConversation(conversations, cid)
            /\ messages' = MessagesAfterDelete(messages, cid)
    /\ UNCHANGED <<tasks, next_id, clock, ticks, num_requests, pc, locals>>

(* ----------------------- routes/tasks.py: /tasks ----------------------- *)
Space == 32

\* str.strip(): leading and trailing whitespace removed
RECURSIVE Strip(_)
Strip(s) ==
    IF s = <<>> THEN s
    ELSE IF Head(s) = Space THEN Strip(Tail(s))
    ELSE IF s[Len(s)] = Space THEN Strip(SubSeq(s, 1, Len(s) - 1))
    ELSE s

NoTaskRow == TaskRow(None, "", NoTitle, FALSE)

\* what a /tasks route answers to user u: the status, the detail of an
\* HTTPException, the TaskResponse body, the TaskListResponse body
TaskRouteResponse(op, u, task_id, code, text, task, listed) ==
    [op |-> op, user |-> u, requested |-> task_id, status |-> code,
     detail |-> text, id |-> None, messages |-> <<>>, conversations |-> <<>>,
     task |-> task, tasks |-> listed, total |-> Len(listed)]

TaskRouteFrame ==
    UNCHANGED <<conversations, messages, clock, ticks, num_requests, pc,
                locals>>

\* TaskCreate.title: min_length=1, max_length=200
ValidTaskTitle(title) ==
    Len(title) >= 1 /\ Len(title) <= TASK_TITLE_MAX_LENGTH

\* the first id not taken by a row of the initial store
FirstFreeId == ShortHistoryLen + 3

\* routes/tasks.py lines 21-42
RestCreateTask(u, title) ==
    /\ Cardinality(tasks) < MaxTasks
    /\ next_id < FirstFreeId + MaxTasks
    /\ IF ~ValidTaskTitle(title)
       THEN /\ sync_response' =
                  TaskRouteResponse("create_task", u, None, 422,
                                    "Unprocessable Entity", NoTaskRow, <<>>)
            /\ UNCHANGED <<tasks, next_id>>
       ELSE LET new_task == TaskRow(next_id, u, Strip(title), FALSE)
            IN  /\ tasks' = tasks \cup {new_task}
                /\ next_id' = next_id + 1
                /\ sync_response' =
                      TaskRouteResponse("create_task", u, None, 201, "",
                                        new_task, <<>>)
    /\ TaskRouteFrame

\* lines 51-60: the user's rows that pass the status filter, by created_at
\* descending (ids are handed out in creation order)
RECURSIVE TasksNewestFirst(_)
TasksNewestFirst(rows) ==
    IF rows = {} THEN <<>>
    ELSE LET t == CHOOSE t \in rows : \A o \in rows : o.id <= t.id
         IN  <<t>> \o TasksNewestFirst(rows \ {t})

TaskListing(tsks, u, status_filter) ==
    TasksNewestFirst({t \in tsks :
                        /\ t.user_id = u
                        /\ status_filter = "pending" => ~t.is_completed
                        /\ status_filter = "completed" => t.is_completed})

\* routes/tasks.py lines 45-63
RestListTasks(u, status_filter) ==
    /\ sync_response' =
          TaskRouteResponse("list_tasks", u, None, 200, status_filter,
                            NoTaskRow, TaskListing(tasks, u, status_filter))
    /\ UNCHANGED <<tasks, next_id>>
    /\ TaskRouteFrame

\* session.get(Task, task_id): the rows with that primary key
TaskById(tsks, task_id) == {t \in tsks : t.id = task_id}

\* the check left out: every caller passes
AnyCaller(task, u) == TRUE

\* the negation of lines 81, 107, 151 and 184: task.user_id != current_user.id
OwnedByCaller(task, u) == task.user_id = u

\* line 158 read as "mark completed"
ToggledOn(t) == [t EXCEPT !.is_completed = TRUE]

\* line 158: task.is_completed = not task.is_completed
Toggled(t) == [t EXCEPT !.is_completed = ~t.is_completed]

\* lines 158-163: the toggled row is committed in place of the row read
ToggleEffect(tsks, task) == (tsks \ {task}) \cup {Toggled(task)}

\* routes/tasks.py lines 136-166
RestToggleTask(u, task_id) ==
    /\ IF TaskById(tasks, task_id) = {}
       THEN /\ sync_response' =
                  TaskRouteResponse("toggle_task_completion", u, task_id, 404,
                                    "Task not found", NoTaskRow, <<>>)
            /\ UNCHANGED tasks
       ELSE LET task == CHOOSE t \in TaskById(tasks, task_id) : TRUE
            IN  IF ~OwnedByCaller(task, u)
                THEN /\ sync_response' =
                           TaskRouteResponse(
                               "toggle_task_completion", u, task_id, 403,
                               "You don't have permission to modify this task",
                               NoTaskRow, <<>>)
                     /\ UNCHANGED tasks
                ELSE /\ tasks' = ToggleEffect(tasks, task)
                     /\ sync_response' =
                           TaskRouteResponse("toggle_task_completion", u,
                                             task_id, 200, "", Toggled(task),
                                             <<>>)
    /\ UNCHANGED next_id
    /\ TaskRouteFrame

\* session.get(Task, task_id) when there is a row
TaskRead(tsks, task_id) == CHOOSE t \in TaskById(tsks, task_id) : TRUE

TaskMissing(op, u, task_id) ==
    TaskRouteResponse(op, u, task_id, 404, "Task not found", NoTaskRow, <<>>)

TaskForbidden(op, u, task_id, text) ==
    TaskRouteResponse(op, u, task_id, 403, text, NoTaskRow, <<>>)

\* routes/tasks.py lines 66-88
RestGetTask(u, task_id) ==
    /\ sync_response' =
          IF TaskById(tasks, task_id) = {}
          THEN TaskMissing("get_task", u, task_id)
          ELSE IF ~OwnedByCaller(TaskRead(tasks, task_id), u)
          THEN TaskForbidden("get_task", u, task_id,
                             "You don't have permission to access this task")
          ELSE TaskRouteResponse("get_task", u, task_id, 200, "",
                                 TaskRead(tasks, task_id), <<>>)
    /\ UNCHANGED <<tasks, next_id>>
    /\ TaskRouteFrame

\* TaskUpdate.title: Optional, min_length=1, max_length=200
ValidTaskUpdate(title) == title = NoTitle \/ ValidTaskTitle(title)

\* lines 121-122: the title, when one is given, replaces the stored one
RestUpdated(task, title) ==
    IF title = NoTitle THEN task ELSE [task EXCEPT !.title = Strip(title)]

\* routes/tasks.py lines 91-133; has_description: the body carries a
\* description
RestUpdateTask(u, task_id, title, has_description) ==
    /\ IF ~ValidTaskUpdate(title)
       THEN /\ sync_response' =
                  TaskRouteResponse("update_task", u, task_id, 422,
                                    "Unprocessable Entity", NoTaskRow, <<>>)
            /\ UNCHANGED tasks
       ELSE IF TaskById(tasks, task_id) = {}
       THEN /\ sync_response' = TaskMissing("update_task", u, task_id)
            /\ UNCHANGED tasks
       ELSE LET task == TaskRead(tasks, task_id)
            IN  IF ~OwnedByCaller(task, u)
                THEN /\ sync_response' =
                           TaskForbidden(
                               "update_task", u, task_id,
                               "You don't have permission to update this task")
                     /\ UNCHANGED tasks
                ELSE IF title = NoTitle /\ ~has_description
                THEN /\ sync_response' =
                           TaskRouteResponse(
                               "update_task", u, task_id, 400,
                               "At least one field (title or description) must be provided",
                               NoTaskRow, <<>>)
                     /\ UNCHANGED tasks
                ELSE /\ tasks' = (tasks \ {task}) \cup {RestUpdated(task, title)}
                     /\ sync_response' =
                           TaskRouteResponse("update_task", u, task_id, 200, "",
                                             RestUpdated(task, title), <<>>)
    /\ UNCHANGED next_id
    /\ TaskRouteFrame

\* the row marked deleted and kept
TaskKept(tsks, task) == tsks

\* lines 191-192: session.delete(task); session.commit()
TaskDeleted(tsks, task) == tsks \ {task}

\* routes/tasks.py lines 169-195
RestDeleteTask(u, task_id) ==
    /\ IF TaskById(tasks, task_id) = {}
       THEN /\ sync_response' = TaskMissing("delete_task", u, task_id)
            /\ UNCHANGED tasks
       ELSE LET task == TaskRead(tasks, task_id)
            IN  IF ~OwnedByCaller(task, u)
                THEN /\ sync_response' =
                           TaskForbidden(
                               "delete_task", u, task_id,
                               "You don't have permission to delete this task")
                     /\ UNCHANGED tasks
                ELSE /\ tasks' = TaskDeleted(tasks, task)
                     /\ sync_response' =
                           TaskRouteResponse("delete_task", u, task_id, 204, "",
                                             NoTaskRow, <<>>)
    /\ UNCHANGED next_id
    /\ TaskRouteFrame

\* time passes
Tick ==
    /\ ticks < MaxTicks
    /\ ticks' = ticks + 1
    /\ clock' = clock + 1
    /\ UNCHANGED <<store, num_requests, pc, locals, sync_response>>

\* the conversation_id values of a request that are no id of a row
NoReference == {None}
UnknownReference == {UnknownConversationId}
EmptyReference == {EmptyConversationId}
\* the ids a path /conversations/{conversation_id} can carry
PathConversationIds == {UnknownConversationId} \cup DOMAIN conversations
ExistingTaskIds == {t.id : t \in tasks}
TaskIds == ExistingTaskIds \cup {UnknownTaskId}
\* one exception the engine raises
OneException == {Exception("RuntimeError", "connection reset by peer")}

\* the steps of one chat request served by worker w; the request is of a
\* user of users, carries a message of msgs and the id of a conversation or
\* a value of refs; the engine returns a result of results or raises an
\* exception of excs
Chat(w, users, msgs, refs, results, excs) ==
    \/ \E u \in users, m \in msgs, cid \in refs \cup DOMAIN conversations :
          ChatBegin(w, u, m, cid)
    \/ \E tie \in TieOrders : LoadHistory(w, tie)
    \/ StoreUserMessage(w)
    \/ TitleCheck(w)
    \/ TitleSet(w)
    \/ CountBefore(w)
    \/ \E res \in results : EngineReturn(w, res)
    \/ EngineTimeout(w)
    \/ \E exc \in excs : EngineRaise(w, exc)
    \/ CountAfter(w)
    \/ StoreAssistant(w)
    \/ Finish(w)

\* storage becomes unavailable at a count query of run_agent
CountFails(w) ==
    \/ CountBeforeFails(w)
    \/ CountAfterFails(w)

\* the tools that change the number of tasks or complete one
Tools(w, ids) ==
    \/ \E t \in TaskTitles : ToolAddTask(w, t)
    \/ \E id \in ids : ToolCompleteTask(w, id)
    \/ \E id \in ids : ToolDeleteTask(w, id)

\* the tools that read tasks or change a title
MoreTools(w) ==
    \/ \E status \in ListStatuses : ToolListTasks(w, status)
    \/ \E id \in TaskIds : ToolGetTask(w, id)
    \/ \E id \in TaskIds, title \in UpdateTitles : ToolUpdateTask(w, id, title)

(* One worker serves chat requests of both users, with every engine result   *)
(* shape and the tools that change the task count, while owners delete       *)
(* conversations under it.                                                   *)
Next ==
    \/ Chat("w1", Users, RequestMessages, NoReference \cup UnknownReference,
            EngineResults, OneException)
    \/ Tools("w1", ExistingTaskIds)
    \/ Crash("w1")
    \/ \E cid \in DOMAIN conversations :
          DeleteConversation(conversations[cid].user_id, cid)

Spec == Init /\ [][Next]_vars

(* Two workers serve alice's chat requests concurrently.                      *)
NextRace ==
    \/ \E w \in Workers :
          Chat(w, {"alice"}, RequestMessages, NoReference \cup UnknownReference,
               {ResultPlain}, OneException)
    \/ Tick

SpecRace == Init /\ [][NextRace]_vars

(* One worker serves alice's requests on a conversation whose history is      *)
(* about as long as the window, and the conversation is read back.            *)
NextWindow ==
    \/ Chat("w1", {"alice"}, {ShortMessage}, NoReference \cup UnknownReference,
            {ResultPlain}, OneException)
    \/ \E cid \in DOMAIN conversations, tie \in TieOrders :
          GetConversation("alice", cid, tie)
    \/ Tick

InitWindow == \E n \in (LongHistoryLen - 2)..LongHistoryLen : InitWith(n)

SpecWindow == InitWindow /\ [][NextWindow]_vars

(* Both users chat and list, read and delete conversations, their own and    *)
(* each other's.                                                             *)
NextOwnership ==
    \/ Chat("w1", Users, {ShortMessage},
            NoReference \cup UnknownReference \cup EmptyReference,
            {ResultPlain}, OneException)
    \/ \E u \in Users, tie \in TieOrders : ListConversations(u, tie)
    \/ \E u \in Users, cid \in PathConversationIds, tie \in TieOrders :
          GetConversation(u, cid, tie)
    \/ \E u \in Users, cid \in PathConversationIds : DeleteConversation(u, cid)

SpecOwnership == Init /\ [][NextOwnership]_vars

(* One worker serves chat requests of both users while the engine runs every *)
(* tool, with ids of tasks of either user and of no task.                    *)
NextTools ==
    \/ Chat("w1", Users, {ShortMessage}, NoReference, {ResultPlain},
            OneException)
    \/ Tools("w1", TaskIds)
    \/ MoreTools("w1")

SpecTools == Init /\ [][NextTools]_vars

(* One worker serves chat requests of both users while the engine runs tools *)
(* and then returns, runs out of time or raises an exception of either class *)
(* with either text, or a count of run_agent fails.                          *)
NextFailure ==
    \/ Chat("w1", Users, {ShortMessage}, NoReference \cup UnknownReference,
            {ResultPlain}, EngineExceptions)
    \/ CountFails("w1")
    \/ Tools("w1", TaskIds)

SpecFailure == Init /\ [][NextFailure]_vars

(* Both users create, toggle and list tasks through the /tasks routes.       *)
RestTitles == {<<>>, <<7>>, <<Space, 6, Space>>}
StatusFilters == {"all", "pending", "completed"}
\* TaskUpdate bodies: no field, a description only, an empty title, a title
UpdateBodies ==
    {[title |-> NoTitle, has_description |-> FALSE],
     [title |-> NoTitle, has_description |-> TRUE],
     [title |-> <<>>, has_description |-> FALSE],
     [title |-> <<Space, 6, Space>>, has_description |-> FALSE]}
\* the ids a path /tasks/{task_id} can carry: of a task that exists, of one
\* that existed, of none
PathTaskIds == ((ShortHistoryLen + 2)..(next_id - 1)) \cup {UnknownTaskId}
NextTasks ==
    \/ \E u \in Users, title \in RestTitles : RestCreateTask(u, title)
    \/ \E u \in Users, status_filter \in StatusFilters :
          RestListTasks(u, status_filter)
    \/ \E u \in Users, task_id \in TaskIds : RestToggleTask(u, task_id)

SpecTasks == Init /\ [][NextTasks]_vars

(* Both users create, list, get and delete tasks, their own and each         *)
(* other's, with ids of tasks that exist, that existed and of none.          *)
NextTaskLife ==
    \/ \E u \in Users : RestCreateTask(u, InitTaskTitle)
    \/ \E u \in Users : RestListTasks(u, "all")
    \/ \E u \in Users, task_id \in PathTaskIds : RestGetTask(u, task_id)
    \/ \E u \in Users, task_id \in PathTaskIds : RestDeleteTask(u, task_id)

SpecTaskLife == Init /\ [][NextTaskLife]_vars

(* Both users create tasks and list, get, update, toggle and delete their    *)
(* own and each other's.                                                     *)
NextTaskOwnership ==
    \/ \E u \in Users : RestCreateTask(u, InitTaskTitle)
    \/ \E u \in Users, status_filter \in StatusFilters :
          RestListTasks(u, status_filter)
    \/ \E u \in Users, task_id \in TaskIds : RestGetTask(u, task_id)
    \/ \E u \in Users, task_id \in TaskIds, body \in UpdateBodies :
          RestUpdateTask(u, task_id, body.title, body.has_description)
    \/ \E u \in Users, task_id \in TaskIds : RestToggleTask(u, task_id)
    \/ \E u \in Users, task_id \in TaskIds : RestDeleteTask(u, task_id)

SpecTaskOwnership == Init /\ [][NextTaskOwnership]_vars

(* Two workers serve alice's chat requests on conversations that exist, at   *)
(* the same time.                                                            *)
NextPair ==
    \E w \in Workers :
        Chat(w, {"alice"}, {ShortMessage}, {}, {ResultPlain}, OneException)

\* the conversation holds one message, or was created by a request that
\* ended before its user message was stored and has no title yet
InitPair == \E n \in {0, ShortHistoryLen} : InitWith(n)

SpecPair == InitPair /\ [][NextPair]_vars

(* One worker serves chat requests while the engine runs tools and returns,  *)
(* raises or runs out of time; storage answers every call and the worker     *)
(* process keeps running, so a step of the handler that can be taken is      *)
(* taken, and asyncio.wait_for ends the await after 30 seconds at the latest.*)
LiveChat(w) ==
    Chat(w, Users, {ShortMessage}, NoReference \cup UnknownReference,
         {ResultPlain}, EngineExceptions)

NextLive ==
    \/ LiveChat("w1")
    \/ Tools("w1", TaskIds)

SpecLive == Init /\ [][NextLive]_vars /\ WF_vars(LiveChat("w1"))

(* One worker serves chat requests of both users whose messages are empty,   *)
(* of one character, of 101, of 1000 and of 1001 characters.                 *)
NextValidation ==
    Chat("w1", Users, BoundaryMessages, NoReference \cup UnknownReference,
         {ResultPlain}, OneException)

SpecValidation == Init /\ [][NextValidation]_vars

(* Two workers serve alice's chat requests on a conversation in which two    *)
(* earlier turns, served concurrently and failed by the engine, have left    *)
(* their user messages with the same created_at.                             *)
InitAfterRace ==
    /\ conversations = [c \in {1} |->
          ConversationRow("alice", Slice(ShortMessage, TITLE_MAX_LENGTH),
                          0, InitUpdatedAt(ShortHistoryLen))]
    /\ messages = InitMessages(ShortHistoryLen)
                    \o <<UserMessageRow(ShortHistoryLen + 3, 1, LongMessage,
                                        ShortHistoryLen + 1),
                         UserMessageRow(ShortHistoryLen + 4, 1, ShortMessage,
                                        ShortHistoryLen + 1)>>
    /\ tasks = InitTasks(ShortHistoryLen)
    /\ next_id = ShortHistoryLen + 5
    /\ clock = ShortHistoryLen + 1
    /\ ticks = 0
    /\ num_requests = [w \in Workers |-> 0]
    /\ pc = [w \in Workers |-> "idle"]
    /\ request = [w \in Workers |-> IdleRequest]
    /\ conversation = [w \in Workers |-> None]
    /\ history_messages = [w \in Workers |-> <<>>]
    /\ user_message = [w \in Workers |-> None]
    /\ run = [w \in Workers |-> IdleRun]
    /\ response = [w \in Workers |-> NoResponse]
    /\ written = [w \in Workers |-> <<>>]
    /\ loaded = [w \in Workers |-> NoRow]
    /\ sync_response = NoSyncResponse

NextReplicas ==
    \E w \in Workers :
        Chat(w, {"alice"}, {ShortMessage}, NoReference, {ResultPlain},
             OneException)

SpecReplicas == InitAfterRace /\ [][NextReplicas]_vars

(* One worker serves alice's chat requests, in which the engine may add a    *)
(* task, while alice creates and deletes tasks through the /tasks routes.    *)
NextShared ==
    \/ Chat("w1", {"alice"}, {ShortMessage}, {}, {ResultPlain}, OneException)
    \/ \E title \in TaskTitles : ToolAddTask("w1", title)
    \/ RestCreateTask("alice", InitTaskTitle)
    \/ \E task_id \in ExistingTaskIds : RestDeleteTask("alice", task_id)

\* the conversation was created by a request that ended before its user
\* message was stored
InitUntitled == InitWith(0)

SpecShared == InitUntitled /\ [][NextShared]_vars

(* ======================== properties =================================== *)
SeqRange(q) == {q[i] : i \in 1..Len(q)}
HasRow(id) == \E i \in 1..Len(messages) : messages[i].id = id
RowById(id) == messages[CHOOSE i \in 1..Len(messages) : messages[i].id = id]
ConversationExists(w) == conversation[w] \in DOMAIN conversations

\* the request has ended with the answer of one of the except branches
EngineFailed(w) ==
    pc[w] = "done" /\ response[w] \in {GatewayTimeout, EngineFailure}
\* the request has ended with a ChatResponse
Completed(w) == pc[w] = "done" /\ response[w].status = 200
\* Runner.run has been entered for the request the worker serves
EngineInvoked(w) ==
    \/ pc[w] \in {"running", "count_after", "store_assistant", "crashed"}
    \/ EngineFailed(w)
    \/ Completed(w)

\* C1: whenever the engine has been invoked for a turn (the worker may have
\* crashed while it waited), the turn's user message has been committed: it
\* is the first row the turn wrote and, unless the conversation was deleted
\* since, the store holds it with role user and the request's text.
C1_UserMessageCommittedBeforeEngine ==
    \A w \in Workers :
        EngineInvoked(w) =>
            /\ user_message[w] # None
            /\ Len(written[w]) >= 1
            /\ written[w][1] = user_message[w]
            /\ ConversationExists(w) =>
                  /\ HasRow(user_message[w])
                  /\ RowById(user_message[w]).role = "user"
                  /\ RowById(user_message[w]).content = request[w].message
                  /\ RowById(user_message[w]).conversation_id = conversation[w]

C1_Witness ==
    \E w \in Workers : pc[w] = "crashed" /\ HasRow(user_message[w])

\* C2: after the engine invocation raised or timed out, the turn has written
\* exactly one message, the user's, and a re-read of the conversation shows
\* that message and no row of the turn with role assistant.
C2_FailedTurnWritesOnlyUserMessage ==
    \A w \in Workers :
        EngineFailed(w) =>
            /\ written[w] = <<user_message[w]>>
            /\ ConversationExists(w) =>
                  \A tie \in TieOrders :
                      LET view == HistoryWindow(messages, conversation[w], tie)
                      IN  /\ \E i \in 1..Len(view) :
                                /\ view[i].id = user_message[w]
                                /\ view[i].role = "user"
                          /\ \A i \in 1..Len(view) :
                                view[i].id \in SeqRange(written[w])
                                    => view[i].role # "assistant"

C2_Witness ==
    \E w \in Workers :
        /\ EngineFailed(w)
        /\ response[w] = GatewayTimeout
        /\ ConversationExists(w)

\* C3: after the engine invocation failed, updated_at of the conversation has
\* the value it had when the request began.
C3_FailedTurnKeepsUpdatedAt ==
    \A w \in Workers :
        EngineFailed(w) /\ ConversationExists(w) =>
            conversations[conversation[w]].updated_at = loaded[w].updated_at

C3_Witness ==
    \E w \in Workers :
        /\ EngineFailed(w)
        /\ response[w] = EngineFailure
        /\ ConversationExists(w)
        /\ request[w].conversation_id # None
        /\ clock > loaded[w].updated_at

\* run_agent has returned a result for the request the worker serves: the
\* engine answered and nothing was raised before the return of line 235
EngineReturned(w) == run[w].result.final_output # <<>> /\ run[w].cause = ""

\* C4: a turn whose engine invocation succeeded has written exactly two
\* messages to its conversation, first one with role user, then one with role
\* assistant, and the first was created before the second (the one exception
\* is a conversation deleted while the turn ran: its rows are gone with it).
C4_CompletedTurnWritesUserThenAssistant ==
    \A w \in Workers :
        pc[w] = "done" /\ EngineReturned(w) /\ ConversationExists(w) =>
            /\ Completed(w)
            /\ Len(written[w]) = 2
            /\ written[w][1] = user_message[w]
            /\ HasRow(written[w][1]) /\ HasRow(written[w][2])
            /\ RowById(written[w][1]).role = "user"
            /\ RowById(written[w][2]).role = "assistant"
            /\ RowById(written[w][1]).conversation_id = conversation[w]
            /\ RowById(written[w][2]).conversation_id = conversation[w]
            /\ RowById(written[w][1]).created_at
                  < RowById(written[w][2]).created_at
            /\ Cardinality({i \in ConvIdx(messages, conversation[w]) :
                               messages[i].id \in SeqRange(written[w])}) = 2

C4_Witness ==
    \E w \in Workers :
        Completed(w) /\ ConversationExists(w) /\ Len(written[w]) = 2

\* h is the min(n, 20) most recent rows of conversation cid in msgs, oldest
\* first
IsWindowOf(h, msgs, cid) ==
    LET idx == ConvIdx(msgs, cid)
        ids == {h[i].id : i \in 1..Len(h)}
    IN  /\ Len(h) = Min(Cardinality(idx), MAX_HISTORY_MESSAGES)
        /\ Cardinality(ids) = Len(h)
        /\ \A i \in 1..Len(h) : \E k \in idx : msgs[k] = h[i]
        /\ \A i \in 1..(Len(h) - 1) : h[i].created_at <= h[i + 1].created_at
        /\ \A k \in idx :
              msgs[k].id \notin ids =>
                  \A i \in 1..Len(h) : msgs[k].created_at <= h[i].created_at

\* C5: the history a chat turn loads, and the message list get_conversation
\* returns, is the min(n, 20) most recent messages of the conversation in
\* ascending created_at order (empty for a conversation without messages).
C5_WindowIsMostRecentAscending ==
    [][ /\ \A w \in Workers :
              pc[w] = "load_history" /\ pc'[w] = "store_user" =>
                  IsWindowOf(history_messages'[w], messages, conversation[w])
        /\ sync_response' # sync_response /\ sync_response'.status = 200 =>
              IsWindowOf(sync_response'.messages, messages, sync_response'.id)
      ]_vars

C5_Witness ==
    \E w \in Workers :
        /\ pc[w] = "store_user"
        /\ Len(history_messages[w]) = MAX_HISTORY_MESSAGES
        /\ Cardinality(ConvIdx(messages, conversation[w])) > MAX_HISTORY_MESSAGES
        /\ sync_response.status = 200
        /\ Len(sync_response.messages) = MAX_HISTORY_MESSAGES

\* C6: the sequence handed to the engine is the loaded history in its order
\* followed by one entry {role: user, content: request message}; it has at
\* most 21 entries, and the turn's own user row is not in the history part.
C6_InputIsHistoryThenNewMessage ==
    \A w \in Workers :
        pc[w] \in {"running", "count_after", "store_assistant"} =>
            LET im == run[w].input_messages
                h == history_messages[w]
            IN  /\ Len(im) = Len(h) + 1
                /\ Len(im) <= MAX_HISTORY_MESSAGES + 1
                /\ \A i \in 1..Len(h) :
                      /\ im[i] = [role |-> h[i].role, content |-> h[i].content]
                      /\ h[i].id # user_message[w]
                /\ im[Len(im)] = [role |-> "user", content |-> request[w].message]

C6_Witness ==
    \E w \in Workers :
        /\ pc[w] = "running"
        /\ Len(run[w].input_messages) = MAX_HISTORY_MESSAGES + 1

\* C7: when the task count after the invocation differs from the count
\* before it and extraction finds no record, run_agent returns exactly one
\* record, task_change_detected, carrying both counts.
C7_MarkerWhenCountChangedAndNothingReported ==
    \A w \in Workers :
        /\ pc[w] = "store_assistant"
        /\ run[w].task_count_before # run[w].task_count_after
        /\ ExtractToolCalls(run[w].result) = <<>>
        => /\ Len(run[w].tool_calls) = 1
           /\ run[w].tool_calls[1].tool = "task_change_detected"
           /\ run[w].tool_calls[1].args.before_count = run[w].task_count_before
           /\ run[w].tool_calls[1].args.after_count = run[w].task_count_after

C7_Witness ==
    \E w \in Workers :
        /\ pc[w] = "store_assistant"
        /\ run[w].task_count_before # run[w].task_count_after
        /\ run[w].result = ResultTraceNoCalls

\* the invocation entries of the trace, in trace order
RECURSIVE TraceInvocations(_)
TraceInvocations(items) ==
    IF items = <<>> THEN <<>>
    ELSE LET item == Head(items)
         IN  (IF HasAttr(item, "type") /\ item.type = "function_call"
              THEN <<Invocation(item.name, item.arguments)>>
              ELSE IF HasAttr(item, "tool_calls") THEN item.tool_calls
              ELSE <<>>) \o TraceInvocations(Tail(items))

\* the invocation records the engine reports, in the direct list or else in
\* the trace
Reported(result) ==
    IF HasAttr(result, "tool_calls") /\ result.tool_calls # <<>>
    THEN result.tool_calls
    ELSE IF HasAttr(result, "new_items")
    THEN TraceInvocations(result.new_items)
    ELSE <<>>

\* C8: when the engine reports N >= 1 invocation records, run_agent returns
\* N records with the engine's tool names and arguments in the engine's
\* order, whatever the task counts, and none of them is the synthetic marker.
C8_ReportedRecordsReturnedAsIs ==
    \A w \in Workers :
        pc[w] = "store_assistant" /\ Len(Reported(run[w].result)) >= 1 =>
            LET rep == Reported(run[w].result)
                tcs == run[w].tool_calls
            IN  /\ Len(tcs) = Len(rep)
                /\ \A i \in 1..Len(rep) :
                      /\ tcs[i].tool = rep[i].name
                      /\ tcs[i].args = rep[i].arguments
                      /\ tcs[i].tool # "task_change_detected"

C8_Witness ==
    \E w \in Workers :
        /\ pc[w] = "store_assistant"
        /\ run[w].result = ResultTraceTwo
        /\ run[w].task_count_before # run[w].task_count_after
        /\ Len(run[w].tool_calls) = 2

\* the first user message stored in conversation cid
FirstUserMessage(cid) ==
    LET idx == {i \in ConvIdx(messages, cid) : messages[i].role = "user"}
    IN  messages[CHOOSE i \in idx : \A j \in idx : i <= j]

\* C9: the title is assigned once: a title that is set never changes, and it
\* is the first 100 characters of the first user message of the conversation.
C9_TitleAssignedOnce ==
    /\ [][ \A c \in DOMAIN conversations \cap DOMAIN conversations' :
              conversations[c].title # NoTitle =>
                  conversations'[c].title = conversations[c].title ]_vars
    /\ [](\A c \in DOMAIN conversations :
              conversations[c].title # NoTitle =>
                  conversations[c].title =
                      Slice(FirstUserMessage(c).content, TITLE_MAX_LENGTH))

\* C10 as claimed: the title is written only by the post-engine step of a
\* turn that succeeded.
C10_TitleWrittenOnlyAfterEngineSuccess ==
    [][ \A c \in DOMAIN conversations \cap DOMAIN conversations' :
           conversations'[c].title # conversations[c].title =>
               \E w \in Workers :
                   /\ conversation[w] = c
                   /\ pc[w] = "store_assistant"
                   /\ pc'[w] = "done"
                   /\ response'[w].status = 200 ]_vars

\* C10 as amended: the title is written by the step that follows the commit
\* of the user message, before the engine is invoked, not by the post-engine
\* step: once the engine has been invoked for a turn, on the success path and
\* on the failure path alike, the conversation carries a title, which is the
\* first 100 characters of a user message stored in it.
C10_TitleWrittenBeforeEngine ==
    \A w \in Workers :
        (pc[w] = "count_before" \/ EngineInvoked(w)) /\ ConversationExists(w) =>
            LET row == conversations[conversation[w]]
            IN  /\ row.title # NoTitle
                /\ \E i \in ConvIdx(messages, conversation[w]) :
                      /\ messages[i].role = "user"
                      /\ row.title = Slice(messages[i].content, TITLE_MAX_LENGTH)

C10_Witness ==
    \E w \in Workers :
        /\ EngineFailed(w)
        /\ ConversationExists(w)
        /\ loaded[w].title = NoTitle
        /\ request[w].message = LongMessage
        /\ conversations[conversation[w]].title # NoTitle

(* ---------------------- ownership of conversations --------------------- *)
\* conversation cid exists and belongs to somebody other than u
OwnedByOther(cid, u) ==
    cid \in DOMAIN conversations /\ conversations[cid].user_id # u

\* this step is worker w accepting a chat request
ChatAccepted(w) == pc[w] = "idle" /\ pc'[w] # "idle"

\* this step is a get or delete conversation request being answered
RouteAnswered(ops) == sync_response' # sync_response /\ sync_response'.op \in ops

\* C11: a chat, get or delete request that names an existing conversation of
\* another user is answered 404 (not 403), changes no conversation or message
\* row, and does not get as far as the engine.
C11_OthersConversationIsNotFound ==
    [][ /\ \A w \in Workers :
              ChatAccepted(w)
              /\ OwnedByOther(request'[w].conversation_id, request'[w].user) =>
                  /\ response'[w].status = 404
                  /\ pc'[w] = "done"
                  /\ run'[w] = IdleRun
                  /\ UNCHANGED <<conversations, messages>>
        /\ RouteAnswered({"get", "delete"})
           /\ OwnedByOther(sync_response'.requested, sync_response'.user) =>
               /\ sync_response'.status = 404
               /\ UNCHANGED <<conversations, messages>>
      ]_vars

C11_Witness ==
    /\ \E w \in Workers :
          /\ pc[w] = "done"
          /\ OwnedByOther(request[w].conversation_id, request[w].user)
          /\ response[w].status = 404
    /\ sync_response.op = "delete"
    /\ OwnedByOther(sync_response.requested, sync_response.user)

\* the store without conversation cid
ConversationsWithout(cid) == RemoveConversation(conversations, cid)
MessagesWithout(cid) == CascadeDelete(messages, cid)

\* C12: the answer to a request naming another user's conversation is the
\* answer the same request gets from a store in which that conversation does
\* not exist: get and delete answer alike in both stores, and chat answers the
\* one 404 "Conversation not found" to every id the caller does not own.
C12_OthersConversationLooksAbsent ==
    /\ [](\A u \in Users, cid \in DOMAIN conversations :
              OwnedByOther(cid, u) =>
                  /\ \A tie \in TieOrders :
                        GetResponse(conversations, messages, u, cid, tie)
                          = GetResponse(ConversationsWithout(cid),
                                        MessagesWithout(cid), u, cid, tie)
                  /\ DeleteResponse(conversations, u, cid)
                        = DeleteResponse(ConversationsWithout(cid), u, cid))
    /\ [][ \A w \in Workers :
              ChatAccepted(w)
              /\ Truthy(request'[w].conversation_id)
              /\ SelectOwned(conversations, request'[w].conversation_id,
                             request'[w].user) = None =>
                  response'[w] = NotFound ]_vars

C12_Witness ==
    /\ sync_response.op = "get"
    /\ sync_response.status = 404
    /\ OwnedByOther(sync_response.requested, sync_response.user)

\* the user on whose behalf worker w takes this step
ActingUser(w) == IF pc[w] = "idle" THEN request'[w].user ELSE request[w].user

\* no conversation of anybody but u, and no message of it, is touched by
\* this step
OthersUntouched(u) ==
    \A c \in DOMAIN conversations :
        conversations[c].user_id # u =>
            /\ c \in DOMAIN conversations'
            /\ conversations'[c] = conversations[c]
            /\ WhereConversation(messages', c) = WhereConversation(messages, c)

\* the owner of conversation c, "" if there is no such row
OwnerOf(c) ==
    IF c \in DOMAIN conversations THEN conversations[c].user_id ELSE ""

\* every conversation and message in the answer to a route belongs to u
AnswerOwnedBy(r, u) ==
    /\ \A i \in 1..Len(r.conversations) : OwnerOf(r.conversations[i].id) = u
    /\ \A i \in 1..Len(r.messages) :
          OwnerOf(r.messages[i].conversation_id) = u
    /\ r.id # None => OwnerOf(r.id) = u

\* C13: whatever a user does through chat, list, get and delete, the
\* conversations of other users and their messages stay as they are, and the
\* answers carry only conversations and messages of the user who asked.
C13_OnlyOwnerSeesAndChanges ==
    [][ /\ \A w \in Workers :
              pc'[w] # pc[w] =>
                  /\ OthersUntouched(ActingUser(w))
                  /\ pc'[w] = "done" /\ response'[w].status = 200 =>
                        OwnerOf(response'[w].conversation_id) = ActingUser(w)
                  /\ pc[w] = "load_history" =>
                        \A i \in 1..Len(history_messages'[w]) :
                            OwnerOf(history_messages'[w][i].conversation_id)
                                = ActingUser(w)
        /\ RouteAnswered({"list", "get", "delete"}) =>
              /\ OthersUntouched(sync_response'.user)
              /\ AnswerOwnedBy(sync_response', sync_response'.user)
      ]_vars

C13_Witness ==
    /\ sync_response.op = "list"
    /\ sync_response.user = "bob"
    /\ Len(sync_response.conversations) = 1
    /\ \E c \in DOMAIN conversations : conversations[c].user_id = "alice"
    /\ \E c \in DOMAIN conversations : conversations[c].user_id = "bob"

(* ----------------------- failures of run_agent ------------------------- *)
\* the request of worker w has ended in an except branch of lines 167-178
Excepted(w) == pc[w] = "done" /\ run[w].cause # ""

C15_ExceptionTextNeverForwarded ==
    \A w \in Workers :
        Excepted(w) =>
            /\ response[w] \in {GatewayTimeout, EngineFailure}
            /\ response[w].detail \notin ExceptionTexts \cup {StorageError.text}
            /\ \A txt \in ExceptionTexts :
                  response[w] = ExceptResponse(Exception(run[w].raised.type, txt))

C15_Witness ==
    \E w \in Workers :
        /\ Excepted(w)
        /\ run[w].cause = "engine"
        /\ run[w].raised.type = "RuntimeError"
        /\ run[w].raised.text \in ExceptionTexts
        /\ response[w] = EngineFailure

\* C16: when a count of run_agent fails because storage is unavailable, the
\* request ends as a storage error (the uncaught-exception answer), not as
\* the engine-failure answer.
C16_CountingFailureNotMasked ==
    \A w \in Workers :
        Excepted(w) /\ run[w].cause = "counting" =>
            /\ run[w].tool_calls = <<>>
            /\ response[w] = InternalError

\* C17: the step in which a chat request ends with a timeout or an engine
\* failure leaves every task row as it is, so what the tools committed
\* during the invocation stays in the store.
C17_FailureKeepsToolEffects ==
    [][ \A w \in Workers :
            pc'[w] = "done" /\ run'[w].cause \in {"deadline", "engine"}
            /\ pc[w] # "done" => tasks' = tasks ]_vars

C17_Witness ==
    \E w \in Workers :
        /\ Excepted(w)
        /\ run[w].cause \in {"deadline", "engine"}
        /\ run[w].tools_run >= 1
        /\ \E t \in tasks : t \notin InitTasks(ShortHistoryLen)

(* ------------------------------- tools --------------------------------- *)
\* this step is a tool running for the request of worker w
ToolRan(w) == pc[w] = "running" /\ run'[w].tools_run = run[w].tools_run + 1

\* the task ids a tool's return value carries
ReturnedIds(r) ==
    IF r.tool = "list_tasks"
    THEN {r.returned[i].id : i \in 1..Len(r.returned)}
    ELSE IF HasAttr(r.returned, "error") THEN {} ELSE {r.returned.task_id}

\* C18: a tool running in a turn of user u leaves the tasks of every other
\* user as they are and returns only tasks of u, also when it is given the
\* id of another user's task.
C18_ToolsScopedToActingUser ==
    [][ \A w \in Workers :
            ToolRan(w) =>
                /\ {t \in tasks' : t.user_id # request[w].user}
                      = {t \in tasks : t.user_id # request[w].user}
                /\ \A id \in ReturnedIds(run'[w].last_tool) :
                      \E t \in tasks \cup tasks' :
                          t.id = id /\ t.user_id = request[w].user ]_vars

C18_Witness ==
    \E w \in Workers :
        /\ pc[w] = "running"
        /\ run[w].last_tool.tool = "delete_task"
        /\ \E t \in tasks :
              /\ t.id = run[w].last_tool.args.task_id
              /\ t.user_id # request[w].user

\* C19: get_task, update_task, complete_task and delete_task, given an id
\* that is no task of the acting user (unknown, or another user's), return
\* {error, task_id} and leave every task row as it is.
C19_MissingTaskGivesErrorObject ==
    [][ \A w \in Workers :
            ToolRan(w)
            /\ run'[w].last_tool.tool \in
                  {"get_task", "update_task", "complete_task", "delete_task"}
            /\ OwnTask(tasks, run'[w].last_tool.args.task_id,
                       request[w].user) = {} =>
                /\ run'[w].last_tool.returned =
                      [error |-> "Task not found",
                       task_id |-> run'[w].last_tool.args.task_id]
                /\ tasks' = tasks
                /\ pc'[w] = "running" ]_vars

C19_Witness ==
    \E w \in Workers :
        /\ pc[w] = "running"
        /\ run[w].last_tool.tool = "update_task"
        /\ run[w].last_tool.args.task_id = UnknownTaskId
        /\ HasAttr(run[w].last_tool.returned, "error")

\* C20: a conversation row appears only in the step that accepts a chat
\* request without conversation reference, before any message of the request
\* is written; a chat request that carries a conversation_id value, and list,
\* get and delete, create none.
C20_CreatedOnlyWithoutReference ==
    [][ \A c \in DOMAIN conversations' \ DOMAIN conversations :
            \E w \in Workers :
                /\ ChatAccepted(w)
                /\ request'[w].conversation_id = None
                /\ conversation'[w] = c
                /\ written'[w] = <<>>
                /\ UNCHANGED messages ]_vars

(* ----------------------- the messages table ---------------------------- *)
\* the rows of conversation cid in a messages table
RowsOf(msgs, cid) == {msgs[i] : i \in ConvIdx(msgs, cid)}

\* conversation cid and all its messages are gone from the store
Gone(cid) == cid \notin DOMAIN conversations /\ RowsOf(messages, cid) = {}

C22_MessagesImmutable ==
    [][ /\ \A i \in 1..Len(messages) :
              \/ \E j \in 1..Len(messages') : messages'[j] = messages[i]
              \/ /\ messages[i].conversation_id \in DOMAIN conversations
                 /\ messages[i].conversation_id \notin DOMAIN conversations'
                 /\ RowsOf(messages', messages[i].conversation_id) = {}
        /\ \A j \in 1..Len(messages'), k \in 1..Len(messages') :
              messages'[j].id = messages'[k].id => j = k ]_vars

\* a turn has written both its rows next to the rows that were there, and
\* another conversation has been deleted
C22_Witness ==
    \E w \in Workers :
        /\ Completed(w)
        /\ Len(written[w]) = 2
        /\ \E i \in 1..Len(messages) : messages[i].id \notin SeqRange(written[w])
        /\ sync_response.op = "delete" /\ sync_response.status = 204

(* ------------------- two turns on one conversation --------------------- *)
\* both workers have completed a turn on the same conversation
BothCompleted ==
    /\ Completed("w1") /\ Completed("w2")
    /\ conversation["w1"] = conversation["w2"]

\* the two rows the turn of worker w wrote are in the store: its user message
\* with the request's text, then its assistant message with the reply
OwnPairStored(w) ==
    /\ Len(written[w]) = 2
    /\ written[w][1] = user_message[w]
    /\ HasRow(written[w][1]) /\ HasRow(written[w][2])
    /\ RowById(written[w][1]) \in RowsOf(messages, conversation[w])
    /\ RowById(written[w][2]) \in RowsOf(messages, conversation[w])
    /\ RowById(written[w][1]).role = "user"
    /\ RowById(written[w][1]).content = request[w].message
    /\ RowById(written[w][2]).role = "assistant"
    /\ RowById(written[w][2]).content = run[w].result.final_output
    /\ Cardinality({i \in 1..Len(messages) :
                       messages[i].id \in SeqRange(written[w])}) = 2

\* C23: when two turns on one conversation have both completed, each has its
\* own user row and assistant row in the conversation, four different rows,
\* and every step on the way only appended at most one row, the row of the
\* worker that took the step: nothing was lost, overwritten or written twice.
C23_ConcurrentTurnsWriteFourMessages ==
    /\ [](BothCompleted =>
            /\ OwnPairStored("w1") /\ OwnPairStored("w2")
            /\ SeqRange(written["w1"]) \cap SeqRange(written["w2"]) = {})
    /\ [][ /\ Len(messages') \in {Len(messages), Len(messages) + 1}
           /\ SubSeq(messages', 1, Len(messages)) = messages
           /\ Len(messages') = Len(messages) + 1 =>
                 \E w \in Workers :
                     /\ written'[w] = Append(written[w], messages'[Len(messages')].id)
                     /\ \A v \in Workers \ {w} : written'[v] = written[v] ]_vars

\* both turns overlapped: each stored its user row before the other stored
\* its assistant row
C23_Witness ==
    /\ BothCompleted
    /\ written["w1"][1] < written["w2"][2]
    /\ written["w2"][1] < written["w1"][2]

(* ----------------------------- updated_at ------------------------------ *)
\* this step completes the turn of worker w
Completes(w) == pc[w] = "store_assistant" /\ pc'[w] = "done" /\ Completed(w)'

\* C28: the step that completes a turn leaves the conversation's updated_at
\* not earlier than it was when the turn loaded the conversation and not
\* earlier than the created_at of the assistant message the step writes;
\* also when the other worker completes a turn on the same conversation in
\* between.
C28_CompletedTurnAdvancesUpdatedAt ==
    [][ \A w \in Workers :
            Completes(w) =>
                LET after == conversations'[conversation[w]].updated_at
                IN  /\ after >= loaded[w].updated_at
                    /\ after >= messages'[Len(messages')].created_at
                    /\ messages'[Len(messages')].role = "assistant"
                    /\ messages'[Len(messages')].id = written'[w][2] ]_vars

\* both turns on the conversation completed, the second after the first had
\* moved updated_at past the value the second had loaded
C28_Witness ==
    /\ BothCompleted
    /\ \E w \in Workers :
          /\ loaded[w].updated_at < RowById(written[w][2]).created_at
          /\ \E v \in Workers \ {w} :
                /\ written[v][2] < written[w][2]
                /\ loaded[w].updated_at < RowById(written[v][2]).created_at
                /\ conversations[conversation[w]].updated_at
                      >= RowById(written[v][2]).created_at

(* ------------------------ the course of a turn ------------------------- *)
\* how far send_chat_message has come at each position
Stage(p) ==
    CASE p = "idle" -> 0
      [] p = "load_history" -> 1
      [] p = "store_user" -> 2
      [] p = "title_check" -> 3
      [] p = "title_set" -> 4
      [] p = "count_before" -> 5
      [] p = "running" -> 6
      [] p = "count_after" -> 7
      [] p = "store_assistant" -> 8
      [] p = "done" -> 9
      [] p = "crashed" -> 9

\* C25: within one request the handler only moves forward: the engine is
\* entered once, from the count that precedes it, and a request that ended
\* with a timeout or an engine failure goes nowhere but back to idle with
\* its error as the answer; the request a worker serves does not change on
\* the way.
C25_EngineInvokedAtMostOnce ==
    [][ \A w \in Workers :
            /\ pc'[w] # pc[w] =>
                  \/ Stage(pc'[w]) > Stage(pc[w])
                  \/ pc[w] \in {"done", "crashed"} /\ pc'[w] = "idle"
            /\ pc'[w] = "running" /\ pc[w] # "running" =>
                  pc[w] = "count_before"
            /\ pc[w] # "idle" /\ pc'[w] # "idle" => request'[w] = request[w]
            /\ Excepted(w) /\ pc'[w] # "idle" =>
                  pc'[w] = "done" /\ response'[w] = response[w] ]_vars

\* a request has ended with the timeout error after the engine was entered
C25_Witness ==
    \E w \in Workers :
        /\ Excepted(w)
        /\ run[w].cause = "deadline"
        /\ response[w] = GatewayTimeout
        /\ Len(run[w].input_messages) > 0

\* the state of the turn a worker serves
TurnState(w) ==
    CASE pc[w] = "idle" -> "Idle"
      [] pc[w] \in {"load_history", "store_user"} -> "Received"
      [] pc[w] \in {"title_check", "title_set", "count_before"} -> "UserStored"
      [] pc[w] \in {"running", "count_after", "store_assistant"} -> "EngineInvoked"
      [] pc[w] = "crashed" -> "Crashed"
      [] pc[w] = "done" /\ response[w].status = 200 -> "Completed"
      [] pc[w] = "done" /\ response[w].status # 200 /\ written[w] # <<>> -> "Failed"
      [] pc[w] = "done" /\ response[w].status # 200 /\ written[w] = <<>> -> "Rejected"

\* the moves between the states of a turn
TurnMoves ==
    { <<"Idle", "Received">>, <<"Idle", "Rejected">>,
      <<"Received", "UserStored">>, <<"UserStored", "EngineInvoked">>,
      <<"EngineInvoked", "Completed">>, <<"EngineInvoked", "Failed">>,
      <<"Completed", "Idle">>, <<"Failed", "Idle">>, <<"Rejected", "Idle">> }

\* C27: a turn whose user message is stored eventually is Completed or
\* Failed (so it does not stay in EngineInvoked), and a turn only moves
\* Received, UserStored, EngineInvoked and then Completed, where the
\* assistant message is stored, or Failed.
C27_TurnTerminates ==
    /\ \A w \in Workers :
          TurnState(w) \in {"UserStored", "EngineInvoked"}
              ~> TurnState(w) \in {"Completed", "Failed"}
    /\ [][ \A w \in Workers :
              /\ TurnState(w)' # TurnState(w) =>
                    <<TurnState(w), TurnState(w)'>> \in TurnMoves
              /\ TurnState(w)' = "Completed" /\ TurnState(w) # "Completed" =>
                    /\ Len(written'[w]) = 2
                    /\ messages'[Len(messages')].id = written'[w][2]
                    /\ messages'[Len(messages')].role = "assistant" ]_vars

\* a turn has failed after the engine raised, with its user message stored
C27_Witness ==
    \E w \in Workers :
        /\ TurnState(w) = "Failed"
        /\ run[w].cause = "engine"
        /\ HasRow(user_message[w])

(* --------------------------- validation -------------------------------- *)
\* the message of the request worker w serves is empty or longer than 1000
OutOfBounds(w) ==
    Len(request[w].message) = 0 \/ Len(request[w].message) > 1000

\* C26: a chat request whose message is empty or longer than 1000
\* characters ends at once with 422: the step that receives it changes no
\* conversation, message or task row, run_agent is never entered for it, and
\* it writes nothing until the worker is idle again.
C26_OutOfBoundsMessageRejected ==
    /\ [](\A w \in Workers :
            pc[w] # "idle" /\ OutOfBounds(w) =>
                /\ pc[w] = "done"
                /\ response[w].status = 422
                /\ written[w] = <<>>
                /\ conversation[w] = None
                /\ run[w] = IdleRun)
    /\ [][ \A w \in Workers :
              pc[w] = "idle" /\ pc'[w] # "idle" /\ OutOfBounds(w)' =>
                  /\ conversations' = conversations
                  /\ messages' = messages
                  /\ tasks' = tasks ]_vars
    /\ [](\A w \in Workers :
            pc[w] # "idle" /\ ~OutOfBounds(w) => response[w].status # 422)

\* a message of 1001 characters has been rejected
C26_Witness ==
    \E w \in Workers :
        /\ pc[w] = "done"
        /\ Len(request[w].message) = 1001
        /\ response[w].status = 422

(* ------------------------ a tool applied twice ------------------------- *)
\* update_task, complete_task and delete_task applied a second time with
\* the same arguments change no task row
RepeatChangesNothing(tsks) ==
    \A u \in Users, id \in {t.id : t \in tsks} \cup {UnknownTaskId} :
        /\ \A title \in UpdateTitles :
              UpdateTaskEffect(UpdateTaskEffect(tsks, id, u, title), id, u, title)
                  = UpdateTaskEffect(tsks, id, u, title)
        /\ CompleteTaskEffect(CompleteTaskEffect(tsks, id, u), id, u)
              = CompleteTaskEffect(tsks, id, u)
        /\ DeleteTaskEffect(DeleteTaskEffect(tsks, id, u), id, u)
              = DeleteTaskEffect(tsks, id, u)

\* add_task applied a second time with the same arguments (it gets the next
\* fresh id) changes no task row
RepeatedAddChangesNothing(tsks) ==
    \A u \in Users, title \in TaskTitles :
        AddTaskEffect(AddTaskEffect(tsks, next_id, u, title), next_id + 1, u, title)
            = AddTaskEffect(tsks, next_id, u, title)

\* C29 as stated: add_task, update_task, complete_task and delete_task
\* applied twice with the same arguments leave the user's task records as
\* applying them once does.
C29_EveryMutatingToolIdempotent ==
    RepeatChangesNothing(tasks) /\ RepeatedAddChangesNothing(tasks)

\* C29 amended: update_task, complete_task and delete_task applied twice
\* with the same arguments leave the task records as applying them once
\* does; add_task applied twice leaves two records, with different ids, where
\* one application leaves one.
C29_UpdateCompleteDeleteIdempotent ==
    /\ RepeatChangesNothing(tasks)
    /\ \A u \in Users, title \in TaskTitles :
          LET once == AddTaskEffect(tasks, next_id, u, title)
              twice == AddTaskEffect(once, next_id + 1, u, title)
          IN  /\ once \subseteq twice
              /\ Cardinality(twice) = Cardinality(once) + 1
              /\ \A t \in twice \ once :
                    t.user_id = u /\ t.id \notin {o.id : o \in once}

\* complete_task has completed a task of the acting user: applied again with
\* the same id it finds the task completed and leaves it so
C29_Witness ==
    \E w \in Workers :
        /\ pc[w] = "running"
        /\ run[w].last_tool.tool = "complete_task"
        /\ ~HasAttr(run[w].last_tool.returned, "error")
        /\ \E t \in tasks :
              t.id = run[w].last_tool.args.task_id /\ t.is_completed
        /\ CompleteTaskEffect(tasks, run[w].last_tool.args.task_id,
                              request[w].user) = tasks

(* ------------------------- toggling a task ----------------------------- *)
\* the ids of the tasks a status=completed listing shows to user u
CompletedListingIds(tsks, u) ==
    LET listed == TaskListing(tsks, u, "completed")
    IN  {listed[i].id : i \in 1..Len(listed)}

\* the route has answered 200 to a toggle of task t in this step
TogglesTask(t) ==
    /\ sync_response'.op = "toggle_task_completion"
    /\ sync_response'.status = 200
    /\ sync_response'.requested = t.id
    /\ tasks' # tasks

\* C30: a successful toggle is by the owner and inverts is_completed of that
\* task and of no other; a task pending before the toggle is in the owner's
\* status=completed listing after it, a task completed before it is not; a
\* second toggle gives back the task rows from before the first; and a
\* status=completed listing answers exactly the completed tasks of the user.
C30_ToggleFlipsAndListingFollows ==
    /\ [][\A t \in tasks : TogglesTask(t) =>
            /\ sync_response'.user = t.user_id
            /\ tasks' = (tasks \ {t})
                           \cup {TaskRow(t.id, t.user_id, t.title,
                                         ~t.is_completed)}
            /\ sync_response'.task.is_completed = ~t.is_completed
            /\ t.id \in CompletedListingIds(tasks', t.user_id)
                  <=> ~t.is_completed]_vars
    /\ [](\A t \in tasks :
            /\ ToggleEffect(ToggleEffect(tasks, t), Toggled(t)) = tasks
            /\ Toggled(t).is_completed # t.is_completed
            /\ Toggled(t).id \in CompletedListingIds(ToggleEffect(tasks, t),
                                                     t.user_id)
                  <=> ~t.is_completed)
    /\ [](sync_response.op = "list_tasks" /\ sync_response.detail = "completed"
            => /\ {sync_response.tasks[i].id :
                       i \in 1..Len(sync_response.tasks)}
                     = {t.id : t \in {o \in tasks :
                                         /\ o.user_id = sync_response.user
                                         /\ o.is_completed}}
               /\ sync_response.total = Len(sync_response.tasks))

\* the task that was pending at the start is shown by a status=completed
\* listing to its owner: it has been toggled
C30_Witness ==
    /\ sync_response.op = "list_tasks"
    /\ sync_response.detail = "completed"
    /\ \E i \in 1..Len(sync_response.tasks) :
          /\ sync_response.tasks[i].id
                \in {t.id : t \in InitTasks(ShortHistoryLen)}
          /\ sync_response.tasks[i].is_completed


(* ------------------- two workers, the same request --------------------- *)
\* the ids of the rows a worker has loaded as history
LoadedIds(w) == {history_messages[w][i].id : i \in 1..Len(history_messages[w])}

\* two workers are in the engine for equal requests on the same
\* conversation, and their queries have selected the same rows
SameRequestSameRows(a, b) ==
    /\ pc[a] = "running" /\ pc[b] = "running"
    /\ request[a] = request[b]
    /\ conversation[a] = conversation[b]
    /\ LoadedIds(a) = LoadedIds(b)

\* C24: two workers that serve the same request and have read the same
\* stored messages hand the same message sequence to the engine.
C24_SameRequestSameSequence ==
    \A a, b \in Workers :
        SameRequestSameRows(a, b) =>
            run[a].input_messages = run[b].input_messages

\* the stored messages of a conversation include two of equal created_at
\* and different content
TiedRows(cid) ==
    \E i, j \in ConvIdx(messages, cid) :
        /\ i # j
        /\ messages[i].created_at = messages[j].created_at
        /\ messages[i].content # messages[j].content

(* ----------------------- deleting a task ------------------------------ *)
TaskIdsOf(tsks) == {t.id : t \in tsks}
ListedIds(resp) == {resp.tasks[i].id : i \in 1..Len(resp.tasks)}
\* the number of tasks a listing without filter shows to user u
ListTotal(tsks, u) == Len(TaskListing(tsks, u, "all"))

\* the route has answered 204 to a delete of task t in this step
DeletesTask(t) ==
    /\ sync_response'.op = "delete_task"
    /\ sync_response'.status = 204
    /\ sync_response'.requested = t.id
    /\ sync_response' # sync_response

\* C31: a delete answered 204 is by the owner, removes that task and no
\* other, and makes the owner's list total one less; an id that was handed
\* out and is no task is never a task again, every listing shows stored
\* tasks of the caller only, and all of them when it has no filter, and
\* every get answers 200 exactly for a stored
\* task of the caller, so a deleted task is in no later listing or get; a
\* created task is in its user's listing at once, and a task leaves the
\* store only by a delete answered 204 to its owner.
C31_DeletedTaskGoneCreatedTaskListed ==
    /\ [][\A t \in tasks : DeletesTask(t) =>
            /\ sync_response'.user = t.user_id
            /\ tasks' = tasks \ {t}
            /\ ListTotal(tasks', t.user_id) = ListTotal(tasks, t.user_id) - 1
            /\ t.id \notin TaskIdsOf(tasks')]_vars
    /\ [][\A id \in 1..(next_id - 1) :
            id \notin TaskIdsOf(tasks) => id \notin TaskIdsOf(tasks')]_vars
    /\ [][sync_response'.op = "list_tasks" =>
            LET own == {o \in tasks' : o.user_id = sync_response'.user}
            IN  /\ ListedIds(sync_response') \subseteq TaskIdsOf(own)
                /\ sync_response'.detail = "all" =>
                      /\ ListedIds(sync_response') = TaskIdsOf(own)
                      /\ sync_response'.total = Cardinality(own)]_vars
    /\ [][sync_response'.op = "get_task" =>
            (sync_response'.status = 200
               <=> \E t \in tasks' : /\ t.id = sync_response'.requested
                                      /\ t.user_id = sync_response'.user
                                      /\ sync_response'.task = t)]_vars
    /\ [][sync_response'.op = "create_task" /\ sync_response'.status = 201 =>
            /\ sync_response'.task \in tasks' \ tasks
            /\ sync_response'.task.user_id = sync_response'.user
            /\ sync_response'.task.id
                  \in {r.id : r \in
                         {TaskListing(tasks', sync_response'.user, "all")[i] :
                            i \in 1..ListTotal(tasks', sync_response'.user)}}]_vars
    /\ [][\A t \in tasks :
            t.id \notin TaskIdsOf(tasks') => DeletesTask(t)]_vars

\* the task stored at the start has been deleted and a later get of its id
\* by its owner is answered 404
C31_Witness ==
    /\ sync_response.op = "get_task"
    /\ sync_response.status = 404
    /\ sync_response.user = "alice"
    /\ sync_response.requested \in TaskIdsOf(InitTasks(ShortHistoryLen))
    /\ TaskIdsOf(InitTasks(ShortHistoryLen)) \cap TaskIdsOf(tasks) = {}

(* -------------------- outputs of the itemized trace -------------------- *)
IsCallItem(item) == HasAttr(item, "type") /\ item.type = "function_call"
IsOutputItem(item) ==
    /\ HasAttr(item, "type") /\ item.type = "function_call_output"
    /\ HasAttr(item, "output")

\* the trace begins with k invocation entries followed by k output entries
CallsThenOutputs(items, k) ==
    /\ Len(items) >= 2 * k
    /\ \A i \in 1..k : IsCallItem(items[i]) /\ IsOutputItem(items[k + i])
    /\ \A i \in (2 * k + 1)..Len(items) :
          ~IsCallItem(items[i]) /\ ~IsOutputItem(items[i])

\* the engine result of worker w carries a trace and no direct list
TraceScanned(w) ==
    /\ pc[w] = "store_assistant"
    /\ ~(HasAttr(run[w].result, "tool_calls") /\ run[w].result.tool_calls # <<>>)
    /\ HasAttr(run[w].result, "new_items")

\* C32: after the scan of a trace of k invocation entries followed by their
\* k output entries, each of the k records has a result, and the results
\* are the k payloads, one each.
C32_EveryInvocationGetsItsOutput ==
    \A w \in Workers :
        TraceScanned(w) =>
            LET items == run[w].result.new_items
                tcs == run[w].tool_calls
            IN  \A k \in 1..Len(items) :
                    CallsThenOutputs(items, k) =>
                        /\ Len(tcs) = k
                        /\ \A i \in 1..k : tcs[i].result # EmptyDict
                        /\ {tcs[i].result : i \in 1..k}
                              = {OutputDict(items[k + i].output) : i \in 1..k}

(* ---------------------- priority of extraction ------------------------- *)
\* the result carries a direct list with at least one record
HasDirectList(result) ==
    HasAttr(result, "tool_calls") /\ Len(result.tool_calls) > 0

\* the records other than the synthetic marker
IsEngineRecord(tc) == tc.tool # "task_change_detected"
EngineRecords(tcs) == SelectSeq(tcs, IsEngineRecord)

\* C33: with a direct list in the engine result the returned records are
\* the records of that list, one each and in its order, with no result
\* taken from the trace; without a direct list and with a trace they are
\* the invocations of the trace; with neither no record is extracted (the
\* list returned is empty or holds the marker alone).
C33_DirectListBeforeTrace ==
    \A w \in Workers :
        pc[w] = "store_assistant" =>
            LET result == run[w].result
                tcs == run[w].tool_calls
            IN  /\ HasDirectList(result) =>
                      /\ Len(tcs) = Len(result.tool_calls)
                      /\ \A i \in 1..Len(tcs) :
                            /\ tcs[i].tool = result.tool_calls[i].name
                            /\ tcs[i].args = result.tool_calls[i].arguments
                            /\ tcs[i].result = EmptyDict
                /\ ~HasDirectList(result) /\ HasAttr(result, "new_items") =>
                      LET inv == TraceInvocations(result.new_items)
                          rec == EngineRecords(tcs)
                      IN  /\ Len(rec) = Len(inv)
                          /\ \A i \in 1..Len(rec) :
                                /\ rec[i].tool = inv[i].name
                                /\ rec[i].args = inv[i].arguments
                /\ ~HasDirectList(result) /\ ~HasAttr(result, "new_items") =>
                      EngineRecords(tcs) = <<>>

\* a result with a direct list of one record and a trace of another
\* invocation has been reduced to the record of the direct list
C33_Witness ==
    \E w \in Workers :
        /\ pc[w] = "store_assistant"
        /\ HasDirectList(run[w].result)
        /\ HasAttr(run[w].result, "new_items")
        /\ TraceInvocations(run[w].result.new_items) # <<>>
        /\ Len(run[w].tool_calls) = 1
        /\ run[w].tool_calls[1].tool = run[w].result.tool_calls[1].name

(* ------------------- messages of equal created_at ---------------------- *)
\* rows of equal created_at stand in the order of their insertion (ids are
\* handed out in insertion order)
InInsertionOrder(rows) ==
    \A i, j \in 1..Len(rows) :
        i < j /\ rows[i].created_at = rows[j].created_at
            => rows[i].id < rows[j].id

\* C34: the history window of a chat turn and the messages get_conversation
\* returns hold messages of equal created_at in the order they were
\* inserted, and every read of the present store gives the same window.
C34_TiesInInsertionOrder ==
    /\ \A w \in Workers : InInsertionOrder(history_messages[w])
    /\ sync_response.op = "get" => InInsertionOrder(sync_response.messages)
    /\ \A cid \in DOMAIN conversations, one \in TieOrders, other \in TieOrders :
          HistoryWindow(messages, cid, one) = HistoryWindow(messages, cid, other)

(* ------------------- the request after a failed turn ------------------- *)
\* worker a has answered a failure after storing the user message, and
\* worker b serves a request on the same conversation
FailedBefore(a, b) ==
    /\ a # b
    /\ EngineFailed(a)
    /\ user_message[a] # None
    /\ conversation[a] = conversation[b]

\* the rows of conversation cid that are as new as the row of id mid, or
\* newer
NotOlder(msgs, cid, mid) ==
    {i \in ConvIdx(msgs, cid) :
        \E j \in ConvIdx(msgs, cid) :
            msgs[j].id = mid /\ msgs[i].created_at >= msgs[j].created_at}

\* the row of id mid is the one newest row of conversation cid
Newest(msgs, cid, mid) ==
    \E j \in ConvIdx(msgs, cid) :
        /\ msgs[j].id = mid
        /\ \A i \in ConvIdx(msgs, cid) \ {j} :
              msgs[i].created_at < msgs[j].created_at

\* C35: the user message of a failed turn stays stored; a request that
\* loads the conversation afterwards has it in its history when it is
\* among the 20 newest, and as the last row of the history when no message
\* was stored after it; the sequence then handed to the engine ends with
\* the failed turn's user entry directly followed by the new user entry.
C35_FailedUserMessageInNextInput ==
    /\ [](\A a \in Workers :
            EngineFailed(a) /\ user_message[a] # None =>
                \E i \in 1..Len(messages) :
                    /\ messages[i].id = user_message[a]
                    /\ messages[i].role = "user"
                    /\ messages[i].content = request[a].message)
    /\ [][\A a, b \in Workers :
            /\ FailedBefore(a, b)
            /\ pc[b] = "load_history" /\ pc'[b] = "store_user"
            => LET h == history_messages'[b]
               IN  /\ Cardinality(NotOlder(messages, conversation[b],
                                           user_message[a]))
                         <= MAX_HISTORY_MESSAGES
                       => \E i \in 1..Len(h) : h[i].id = user_message[a]
                   /\ Newest(messages, conversation[b], user_message[a])
                       => h # <<>> /\ h[Len(h)].id = user_message[a]]_vars
    /\ [](\A a, b \in Workers :
            /\ FailedBefore(a, b)
            /\ pc[b] = "running"
            /\ history_messages[b] # <<>>
            /\ history_messages[b][Len(history_messages[b])].id
                  = user_message[a]
            => LET im == run[b].input_messages
               IN  /\ Len(im) >= 2
                   /\ im[Len(im) - 1]
                         = [role |-> "user", content |-> request[a].message]
                   /\ im[Len(im)]
                         = [role |-> "user", content |-> request[b].message])

\* a turn has failed and the request served next on the conversation is in
\* the engine with the failed turn's user message last in its history
C35_Witness ==
    \E a, b \in Workers :
        /\ FailedBefore(a, b)
        /\ pc[b] = "running"
        /\ history_messages[b] # <<>>
        /\ history_messages[b][Len(history_messages[b])].id = user_message[a]
        /\ Len(run[b].input_messages) = Len(history_messages[b]) + 1

(* ------------------------ the mutation signal -------------------------- *)
OwnTasks(tsks, u) == {t \in tsks : t.user_id = u}

\* worker w serves the first request of the behaviour, so that every change
\* of the tasks since the start was made by a tool of this turn
FirstRequest(w) ==
    /\ num_requests[w] = 1
    /\ \A o \in Workers \ {w} : num_requests[o] = 0

\* a tool of the turn worker w serves has changed a task of the acting user
TurnChangedTasks(w) ==
    /\ FirstRequest(w)
    /\ run[w].tools_run >= 1
    /\ OwnTasks(tasks, request[w].user)
          # OwnTasks(InitTasks(ShortHistoryLen), request[w].user)

\* C36: a turn that has run the engine to its end and during which a tool
\* changed a task of the acting user returns at least one tool call record.
C36_MutationAlwaysSignalled ==
    \A w \in Workers :
        pc[w] = "store_assistant" /\ TurnChangedTasks(w) =>
            run[w].tool_calls # <<>>

(* ------------------ the marker and concurrent requests ----------------- *)
HasMarker(tcs) ==
    \E i \in 1..Len(tcs) : tcs[i].tool = "task_change_detected"

\* C37 as stated: a turn returns the marker only if a tool of its own
\* engine invocation changed the acting user's tasks.
C37_MarkerOnlyForOwnChange ==
    \A w \in Workers :
        pc[w] = "store_assistant" /\ HasMarker(run[w].tool_calls) =>
            run[w].tools_run >= 1

\* C37 amended: a turn returns the marker exactly when the engine reported
\* no tool call and the number of the acting user's stored tasks at the
\* count after the run differs from the number at the count before it,
\* whichever request changed it; each count is the number of the user's
\* tasks in the store at the moment of the count.
C37_MarkerFollowsCountsOfTheStore ==
    /\ [](\A w \in Workers :
            pc[w] = "store_assistant" =>
                (HasMarker(run[w].tool_calls)
                   <=> /\ Reported(run[w].result) = <<>>
                       /\ run[w].task_count_before # run[w].task_count_after))
    /\ [][\A w \in Workers :
            /\ pc[w] = "count_before" /\ pc'[w] = "running" =>
                  run'[w].task_count_before
                      = Cardinality(OwnTasks(tasks, request[w].user))
            /\ pc[w] = "count_after" /\ pc'[w] = "store_assistant" =>
                  run'[w].task_count_after
                      = Cardinality(OwnTasks(tasks, request[w].user))]_vars

\* a turn whose engine invocation ran no tool returns the marker: a task of
\* the user was created or deleted through the /tasks routes between the
\* two counts
C37_Witness ==
    \E w \in Workers :
        /\ pc[w] = "store_assistant"
        /\ HasMarker(run[w].tool_calls)
        /\ run[w].tools_run = 0
        /\ sync_response.op \in {"create_task", "delete_task"}
        /\ sync_response.user = request[w].user

(* ------------------ user and assistant messages in order --------------- *)
\* the number of rows of role r among the first n rows
CountRole(rows, n, r) == Cardinality({i \in 1..n : rows[i].role = r})

\* the place of the row of id mid in rows, 0 when it is not there
PlaceOf(rows, mid) ==
    IF \E i \in 1..Len(rows) : rows[i].id = mid
    THEN CHOOSE i \in 1..Len(rows) : rows[i].id = mid
    ELSE 0

\* worker w commits its assistant message in this step
StoresAssistant(w) ==
    /\ pc[w] = "store_assistant" /\ pc'[w] = "done"
    /\ messages' # messages

\* C38 as stated: in the order in which a conversation's messages were
\* stored every assistant message is immediately preceded by the user
\* message of the same turn.
C38_AssistantRightAfterOwnUserMessage ==
    [][\A w \in Workers :
          StoresAssistant(w) =>
              LET rows == WhereConversation(messages', conversation[w])
              IN  /\ Len(rows) >= 2
                  /\ rows[Len(rows)].role = "assistant"
                  /\ rows[Len(rows) - 1].id = user_message[w]]_vars

\* C38 amended: every assistant message is stored after the user message
\* of the same turn, and the messages between the two were all stored by
\* other turns after that user message; it follows the user message
\* immediately when no other turn stored a message on the conversation in
\* between; among the first n messages of a conversation, for every n,
\* there are at most as many assistant messages as user messages.
C38_AssistantAfterOwnUserMessage ==
    /\ [][\A w \in Workers :
            StoresAssistant(w) =>
                LET rows == WhereConversation(messages', conversation[w])
                    before == WhereConversation(messages, conversation[w])
                    own == PlaceOf(rows, user_message[w])
                IN  /\ rows[Len(rows)].role = "assistant"
                    /\ own >= 1 /\ own < Len(rows)
                    /\ rows[own].role = "user"
                    /\ \A i \in (own + 1)..(Len(rows) - 1) :
                          /\ rows[i].id > user_message[w]
                          /\ \A j \in 1..Len(written[w]) :
                                rows[i].id # written[w][j]
                    /\ before[Len(before)].id = user_message[w]
                          => rows[Len(rows) - 1].id = user_message[w]]_vars
    /\ [](\A cid \in DOMAIN conversations :
            LET rows == WhereConversation(messages, cid)
            IN  \A n \in 0..Len(rows) :
                    CountRole(rows, n, "assistant") <= CountRole(rows, n, "user"))

\* a turn has completed whose assistant message does not directly follow
\* its user message: a concurrent turn stored a message in between
C38_Witness ==
    \E w \in Workers :
        /\ Completed(w)
        /\ Len(written[w]) = 2
        /\ LET rows == WhereConversation(messages, conversation[w])
           IN  /\ PlaceOf(rows, written[w][1]) >= 1
               /\ PlaceOf(rows, written[w][2])
                     > PlaceOf(rows, written[w][1]) + 1

(* -------------------- tasks of another user (REST) --------------------- *)
TaskIdRoutes ==
    {"get_task", "update_task", "toggle_task_completion", "delete_task"}

\* the step answers a request of a user other than the owner for task t
AsksForOthersTask(t) ==
    /\ sync_response'.op \in TaskIdRoutes
    /\ sync_response'.requested = t.id
    /\ sync_response'.user # t.user_id

====
